---- MODULE Spec2Model ----
(***************************************************************************)
(* A model of the factsheet extraction pipeline of src/backend.py:         *)
(* FactsheetExtractor.process_multiple_pdfs and everything it calls.       *)
(*                                                                         *)
(* Text is modelled character by character on TLA+ strings (Len, SubSeq    *)
(* and \o).  A cell of a pdfplumber table is a string; the empty string    *)
(* stands for both None and '' because every use of a cell in the source   *)
(* is guarded by its truthiness.                                           *)
(*                                                                         *)
(* A Python float is modelled as an integer number of hundredths           *)
(* (8.5 is 850, 9001.07 is 900107); Optional[float] is <<>> for None and   *)
(* <<n>> for a number.  The cell strings the model draws carry at most     *)
(* two fraction digits, so the encoding is exact on them.                  *)
(*                                                                         *)
(* Two characters cannot be written in a TLA+ string and are replaced by   *)
(* characters used for nothing else: the backtick by "~" and the rupee     *)
(* sign by "$".                                                            *)
(***************************************************************************)
EXTENDS Integers, Sequences, FiniteSets, TLC

(***************************************************************************)
(* Python's str operations                                                 *)
(***************************************************************************)
UPPER == "ABCDEFGHIJKLMNOPQRSTUVWXYZ"
LOWER == "abcdefghijklmnopqrstuvwxyz"
DIGITS == "0123456789"
WHITESPACE == " \n\t"
BACKTICK == "~"
RUPEE == "$"

Ch(s, i) == SubSeq(s, i, i)

\* c in chars, for a one-character string c
CharIn(c, chars) == \E i \in 1..Len(chars) : Ch(chars, i) = c

IndexIn(c, chars) == CHOOSE i \in 1..Len(chars) : Ch(chars, i) = c

isupper(c) == CharIn(c, UPPER)
isalpha(c) == CharIn(c, UPPER) \/ CharIn(c, LOWER)
isdigit(c) == CharIn(c, DIGITS)
isspace(c) == CharIn(c, WHITESPACE)

LowerCh(c) == IF isupper(c) THEN Ch(LOWER, IndexIn(c, UPPER)) ELSE c
UpperCh(c) == IF CharIn(c, LOWER) THEN Ch(UPPER, IndexIn(c, LOWER)) ELSE c

Min(S) == CHOOSE x \in S : \A y \in S : x <= y
Max(S) == CHOOSE x \in S : \A y \in S : x >= y

\* the concatenation of Piece(lo), ..., Piece(hi), split in halves
RECURSIVE MapCat(_, _, _)
MapCat(Piece(_), lo, hi) ==
  IF lo > hi THEN ""
  ELSE IF lo = hi THEN Piece(lo)
  ELSE MapCat(Piece, lo, (lo + hi) \div 2) \o MapCat(Piece, (lo + hi) \div 2 + 1, hi)

lower(s) == MapCat(LAMBDA i : LowerCh(Ch(s, i)), 1, Len(s))

\* the end (exclusive) of the longest run of characters of chars starting at i
RunEnd(s, i, chars) ==
  Min({j \in i..(Len(s) + 1) : j = Len(s) + 1 \/ ~CharIn(Ch(s, j), chars)})

lstrip(s) == SubSeq(s, RunEnd(s, 1, WHITESPACE), Len(s))

rstrip(s) == SubSeq(s, 1, Max({0} \cup {i \in 1..Len(s) : ~isspace(Ch(s, i))}))

strip(s) == rstrip(lstrip(s))

\* s[i:].startswith(sub), i counted from 1
MatchAt(sub, s, i) == i + Len(sub) - 1 <= Len(s) /\ SubSeq(s, i, i + Len(sub) - 1) = sub

startswith(s, sub) == MatchAt(sub, s, 1)
endswith(s, sub) == Len(sub) <= Len(s) /\ MatchAt(sub, s, Len(s) - Len(sub) + 1)

\* sub in s
Contains(sub, s) == \E i \in 1..(Len(s) - Len(sub) + 1) : MatchAt(sub, s, i)

\* any(p in s for p in patterns), patterns a sequence of strings
AnyIn(patterns, s) == \E k \in 1..Len(patterns) : Contains(patterns[k], s)

\* s in labels, labels a sequence of strings
InList(s, labels) == \E k \in 1..Len(labels) : labels[k] = s

\* s.count(sub): non-overlapping occurrences, scanned from the left
RECURSIVE CountFrom(_, _, _)
CountFrom(sub, s, i) ==
  LET found == {j \in i..Len(s) : MatchAt(sub, s, j)}
  IN IF found = {} THEN 0 ELSE 1 + CountFrom(sub, s, Min(found) + Len(sub))

count(s, sub) == CountFrom(sub, s, 1)

\* s.replace(c, '') for a one-character string c
remove(s, c) == MapCat(LAMBDA i : IF Ch(s, i) = c THEN "" ELSE Ch(s, i), 1, Len(s))

\* re.sub(r'\s+', ' ', s)
CollapseWs(s) ==
  MapCat(LAMBDA i : IF ~isspace(Ch(s, i)) THEN Ch(s, i)
                    ELSE IF i > 1 /\ isspace(Ch(s, i - 1)) THEN "" ELSE " ",
         1, Len(s))

\* ' '.join(parts), parts a sequence of strings
RECURSIVE join(_)
join(parts) ==
  IF parts = <<>> THEN ""
  ELSE IF Len(parts) = 1 THEN parts[1]
  ELSE parts[1] \o " " \o join(Tail(parts))

(***************************************************************************)
(* Numbers: float() on decimal literals, in hundredths                     *)
(***************************************************************************)
None == <<>>
Some(x) == <<x>>

RECURSIVE DigitsValue(_)
DigitsValue(s) ==
  IF s = "" THEN 0
  ELSE 10 * DigitsValue(SubSeq(s, 1, Len(s) - 1)) + (IndexIn(Ch(s, Len(s)), DIGITS) - 1)

AllDigits(s) == \A i \in 1..Len(s) : isdigit(Ch(s, i))

\* an unsigned literal d*[.d*] with at least one digit and at most two
\* fraction digits, as hundredths; None where float() raises ValueError
UnsignedHundredths(s) ==
  LET dot == IF Contains(".", s) THEN IndexIn(".", s) ELSE Len(s) + 1
      ip == SubSeq(s, 1, dot - 1)
      fp == SubSeq(s, dot + 1, Len(s))
  IN IF AllDigits(ip) /\ AllDigits(fp) /\ Len(ip) + Len(fp) >= 1 /\ Len(fp) <= 2
     THEN Some(100 * DigitsValue(ip)
               + (IF Len(fp) = 1 THEN 10 ELSE 1) * DigitsValue(fp))
     ELSE None

\* float('nan') and float('inf'), which are no hundredths: two values apart
\* from every amount of the model
NaN == -999999999
Infinity == 999999999

\* float(s): optional surrounding whitespace, optional sign, then a decimal
\* literal or, in any letter case, "nan", "inf" or "infinity"
float(s) ==
  LET t == strip(s)
      signed == t # "" /\ CharIn(Ch(t, 1), "+-")
      body == IF signed THEN SubSeq(t, 2, Len(t)) ELSE t
      u == UnsignedHundredths(body)
  IN IF lower(body) = "nan" THEN Some(NaN)
     ELSE IF lower(body) \in {"inf", "infinity"}
     THEN (IF signed /\ Ch(t, 1) = "-" THEN Some(0 - Infinity) ELSE Some(Infinity))
     ELSE IF u = None THEN None
     ELSE IF signed /\ Ch(t, 1) = "-" THEN Some(0 - u[1]) ELSE u

\* round(n / d) to the nearest integer, ties to even, for d > 0
RoundDiv(n, d) ==
  LET q == n \div d
      r == n % d
  IN IF 2 * r < d THEN q
     ELSE IF 2 * r > d THEN q + 1
     ELSE IF q % 2 = 0 THEN q ELSE q + 1

(***************************************************************************)
(* Field normalizers                                                       *)
(***************************************************************************)
\* FactsheetExtractor.parse_percentage; 0 for a falsy value or a ValueError
parse_percentage(value) ==
  IF value = "" THEN 0
  ELSE LET c0 == strip(remove(remove(value, "%"), ","))
           cleaned == IF startswith(c0, "(") /\ endswith(c0, ")")
                      THEN "-" \o SubSeq(c0, 2, Len(c0) - 1)
                      ELSE c0
           f == float(cleaned)
       IN IF f = None THEN 0 ELSE f[1]

\* FactsheetExtractor.parse_number; None or Some(hundredths)
parse_number(value) ==
  IF value = "" THEN None
  ELSE LET cleaned == strip(remove(remove(remove(value, ","), BACKTICK), RUPEE))
       IN IF cleaned = "-" \/ cleaned = "" \/ lower(cleaned) = "na"
          THEN None
          ELSE float(cleaned)

(***************************************************************************)
(* Table classifier, column mapper and row parsers                         *)
(***************************************************************************)
portfolio_keywords == <<"scrip", "security", "stock", "holding", "weightage", "weight">>

skip_patterns ==
  <<"total", "grand total", "equity", "net receivables",
    "scrip", "security", "stock", "weightage", "weight",
    "debt", "cash", "net current", "receivables", "payables",
    "equity & equity", "related", "holdings", "portfolio">>

\* FactsheetExtractor._is_valid_security
_is_valid_security(name) ==
  /\ name # ""
  /\ ~AnyIn(skip_patterns, strip(lower(name)))
  /\ ~(Len(name) < 3 \/ Len(name) > 100)
  /\ \E i \in 1..Len(name) : isalpha(Ch(name, i))

Fields == {"security", "isin", "sector", "pct_of_aum", "market_value", "quantity"}

column_patterns ==
  [security |-> <<"scrip", "security", "stock", "name", "holding", "company">>,
   isin |-> <<"isin">>,
   sector |-> <<"sector", "industry">>,
   pct_of_aum |-> <<"weight", "%", "pct", "weightage", "allocation", "% of", "aum">>,
   market_value |-> <<"market", "value", "mv", "amount">>,
   quantity |-> <<"quantity", "qty", "units", "shares">>]

\* the 0-based positions of the header cells that match a pattern of field
MatchingCols(header_row, field) ==
  {idx \in 0..(Len(header_row) - 1) :
     /\ header_row[idx + 1] # ""
     /\ AnyIn(column_patterns[field], lower(header_row[idx + 1]))}

\* FactsheetExtractor._map_columns: field -> 0-based index of the first
\* matching header cell; a field with no matching cell is not a key
_map_columns(header_row) ==
  [f \in {g \in Fields : MatchingCols(header_row, g) # {}} |->
     Min(MatchingCols(header_row, f))]

\* col_map.get(field): None or Some(index)
Get(col_map, field) == IF field \in DOMAIN col_map THEN Some(col_map[field]) ELSE None

\* Python truthiness of an Optional number: None and 0 are falsy
Truthy(opt) == opt # None /\ opt[1] # 0

non_data_labels ==
  <<"total", "grand total", "equity", "net receivables", "net receivables / (payables)">>

\* the cell at 0-based index idx when idx is mapped, inside the row and the
\* cell is truthy; "" otherwise
CellAt(row, idx) ==
  IF idx # None /\ idx[1] < Len(row) THEN row[idx[1] + 1] ELSE ""

\* the ISIN pattern ^IN[A-Z0-9]{10}$
IsIsinFormat(v) ==
  /\ Len(v) = 12
  /\ SubSeq(v, 1, 2) = "IN"
  /\ \A i \in 3..12 : isupper(Ch(v, i)) \/ isdigit(Ch(v, i))

\* FactsheetExtractor._parse_holding_row: None or Some(holding)
_parse_holding_row(row, col_map, current_sector) ==
  LET security_idx == IF Truthy(Get(col_map, "security"))
                      THEN col_map["security"] ELSE 0
      security == strip(CellAt(row, Some(security_idx)))
      pct_idx == Get(col_map, "pct_of_aum")
      sector_cell == CellAt(row, Get(col_map, "sector"))
      isin_value == strip(CellAt(row, Get(col_map, "isin")))
  IN IF security = "" \/ InList(lower(security), non_data_labels)
     THEN None
     ELSE Some([security |-> CollapseWs(security),
                isin |-> IF IsIsinFormat(isin_value) THEN isin_value ELSE "",
                sector |-> IF sector_cell # "" THEN strip(sector_cell) ELSE current_sector,
                pct_of_aum |-> IF pct_idx # None /\ pct_idx[1] < Len(row)
                               THEN parse_percentage(row[pct_idx[1] + 1]) ELSE 0,
                market_value |-> parse_number(CellAt(row, Get(col_map, "market_value"))),
                quantity |-> parse_number(CellAt(row, Get(col_map, "quantity")))])

\* one (name, weight) pair of a two-column row: a sequence of 0 or 1 holdings
PairHolding(name_cell, weight) ==
  LET security == strip(name_cell)
      pct == parse_percentage(weight)
  IN IF name_cell # "" /\ security # "" /\ _is_valid_security(security) /\ pct > 0
     THEN <<[security |-> security, isin |-> "", sector |-> "Unknown",
             pct_of_aum |-> pct, market_value |-> None, quantity |-> None]>>
     ELSE <<>>

\* TwoColumnRow reading only the pair at columns [0,1]; C9_DualBlockPairs fails
\* under it
TwoColumnRow_LeftPairOnly(row) ==
  IF Len(row) < 2 THEN <<>> ELSE PairHolding(row[1], row[2])

\* the holdings of one row of a two-column table
TwoColumnRow(row) ==
  IF Len(row) < 2 THEN <<>>
  ELSE PairHolding(row[1], row[2])
       \o (IF Len(row) >= 4 THEN PairHolding(row[3], row[4]) ELSE <<>>)

RECURSIVE TwoColumnRows(_)
TwoColumnRows(rows) ==
  IF rows = <<>> THEN <<>> ELSE TwoColumnRow(Head(rows)) \o TwoColumnRows(Tail(rows))

\* FactsheetExtractor._parse_two_column_table; header_idx is 0-based
_parse_two_column_table(table, header_idx) ==
  TwoColumnRows(SubSeq(table, header_idx + 2, Len(table)))

\* row_text of _process_tables
RowText(row) == join(SelectSeq([i \in 1..Len(row) |-> lower(row[i])], LAMBDA c : c # ""))

IsHeaderRow(row) == row # <<>> /\ AnyIn(portfolio_keywords, RowText(row))

\* the 0-based indexes, among the first three rows, of the header candidates
HeaderCandidates(table) ==
  {idx \in 0..(Len(table) - 1) : idx < 3 /\ IsHeaderRow(table[idx + 1])}

is_two_column_format(row) ==
  count(RowText(row), "scrip") >= 2 \/ (Len(row) >= 4 /\ Contains("scrip", RowText(row)))

\* the data rows of a single-block table, parsed in order
RECURSIVE SingleBlockRows(_, _, _)
SingleBlockRows(rows, col_map, current_sector) ==
  IF rows = <<>> THEN <<>>
  ELSE LET holding == IF Head(rows) = <<>> THEN None
                      ELSE _parse_holding_row(Head(rows), col_map, current_sector)
       IN (IF holding # None /\ holding[1].security # "" THEN holding ELSE <<>>)
          \o SingleBlockRows(Tail(rows), col_map, current_sector)

\* the table is rejected: "if not col_map.get('security') and not col_map.get('scrip')"
RejectsColMap(col_map) == ~Truthy(Get(col_map, "security")) /\ ~Truthy(Get(col_map, "scrip"))

\* the holdings one candidate table adds in the loop of _process_tables
TableHoldings(table, current_sector) ==
  IF Len(table) < 2 \/ HeaderCandidates(table) = {} THEN <<>>
  ELSE LET header_idx == Min(HeaderCandidates(table))
           header_row == table[header_idx + 1]
       IN IF is_two_column_format(header_row)
          THEN _parse_two_column_table(table, header_idx)
          ELSE IF RejectsColMap(_map_columns(header_row)) THEN <<>>
          ELSE SingleBlockRows(SubSeq(table, header_idx + 2, Len(table)),
                               _map_columns(header_row), current_sector)

\* the loop of _process_tables over all candidate tables
RECURSIVE ScanTables(_, _)
ScanTables(tables, current_sector) ==
  IF tables = <<>> THEN <<>>
  ELSE TableHoldings(Head(tables), current_sector) \o ScanTables(Tail(tables), current_sector)

(***************************************************************************)
(* Text-fallback extractor                                                 *)
(***************************************************************************)
\* the class [A-Za-z\s&\.\(\)] of the fallback pattern
NAMECHARS == UPPER \o LOWER \o WHITESPACE \o "&.()"

skip_words == <<"page", "total", "scheme", "fund", "year", "month", "return", "nav">>

\* A match of
\*   ([A-Z][A-Za-z\s&\.\(\)]+(?:Ltd|Limited|Corp|Inc)?\.?)\s+(\d+\.\d+)
\* that starts at i.  The optional suffix and dot are characters of the
\* class too, so group 1 is [A-Z] followed by one or more class characters;
\* a digit is not in the class, so the number starts where the run of class
\* characters ends, and the greedy group gives back exactly one whitespace
\* character to \s+.  The result is <<>> or <<[name, number, end]>>, end
\* being the position after the match.
NameNumberAt(text, i) ==
  LET e == RunEnd(text, i + 1, NAMECHARS)
      d1 == RunEnd(text, e, DIGITS)
      d2 == RunEnd(text, d1 + 1, DIGITS)
  IN IF /\ i <= Len(text) /\ isupper(Ch(text, i))
        /\ e - 1 >= i + 2 /\ isspace(Ch(text, e - 1))
        /\ d1 > e /\ d1 <= Len(text) /\ Ch(text, d1) = "." /\ d2 > d1 + 1
     THEN <<[name |-> SubSeq(text, i, e - 2), number |-> SubSeq(text, e, d2 - 1),
             end |-> d2]>>
     ELSE <<>>

\* re.findall: the leftmost match from i on, then on from its end
RECURSIVE FindAllFrom(_, _)
FindAllFrom(text, i) ==
  LET starts == {j \in i..Len(text) : NameNumberAt(text, j) # <<>>}
  IN IF starts = {} THEN <<>>
     ELSE LET m == NameNumberAt(text, Min(starts))
          IN m \o FindAllFrom(text, m[1].end)

\* the holding of one match: a sequence of 0 or 1 holdings
TextMatchHolding(m) ==
  LET security == strip(m.name)
      pct == float(m.number)[1]
  IN IF Len(security) < 3 \/ pct > 10000 \/ pct <= 0 THEN <<>>
     ELSE IF AnyIn(skip_words, lower(security)) THEN <<>>
     ELSE <<[security |-> security, isin |-> "", sector |-> "Unknown",
             pct_of_aum |-> pct, market_value |-> None, quantity |-> None]>>

RECURSIVE TextMatchHoldings(_)
TextMatchHoldings(matches) ==
  IF matches = <<>> THEN <<>>
  ELSE TextMatchHolding(Head(matches)) \o TextMatchHoldings(Tail(matches))

\* FactsheetExtractor._extract_holdings_from_text
_extract_holdings_from_text(text) == TextMatchHoldings(FindAllFrom(text, 1))

(***************************************************************************)
(* Metadata extractor: total managed assets (AUM, in crores)               *)
(*                                                                         *)
(* The patterns are matched with re.IGNORECASE, here on the lower-cased    *)
(* text.  Every quantifier of the patterns is followed by something none   *)
(* of its characters can start, so the greedy choice is the only one that  *)
(* can match, except for the leading \d{1,3} of the last pattern, whose    *)
(* three lengths are tried longest first as the regex engine does.         *)
(***************************************************************************)
GLYPHS == BACKTICK \o RUPEE

SkipWs(s, i) == RunEnd(s, i, WHITESPACE)

\* an optional character of chars at i
OptChar(s, i, chars) == IF i <= Len(s) /\ CharIn(Ch(s, i), chars) THEN i + 1 ELSE i

\* [\d,]+\.?\d* at i: the end of the group, or i when there is none
NumberEnd(s, i) ==
  LET a == RunEnd(s, i, DIGITS \o ",")
  IN IF a = i THEN i ELSE RunEnd(s, OptChar(s, a, "."), DIGITS)

\* \s*(?:Cr|Crore) at i
CroreAt(s, i) == MatchAt("cr", s, SkipWs(s, i))

\* \s*\(?[`₹]?\s*cr at i
ParenCrAt(s, i) ==
  MatchAt("cr", s, SkipWs(s, OptChar(s, OptChar(s, SkipWs(s, i), "("), GLYPHS)))

\* the first position from i on that holds c, or Len(s) + 1
FindChar(s, i, c) == Min({j \in i..(Len(s) + 1) : j = Len(s) + 1 \/ Ch(s, j) = c})

\* <w1>\s+<w2> at i: the position after w2, or 0
TwoWordsAt(s, i, w1, w2) ==
  LET j == i + Len(w1)
      k == SkipWs(s, j)
  IN IF MatchAt(w1, s, i) /\ k > j /\ MatchAt(w2, s, k) THEN k + Len(w2) ELSE 0

\* <w1>\s+<w2>[^`]*`\s*([\d,]+\.?\d*)\s*\(?[`₹]?\s*cr at i: None or Some(group)
BacktickAmountAt(s, i, w1, w2) ==
  LET k == TwoWordsAt(s, i, w1, w2)
      b == FindChar(s, k, BACKTICK)
      n == SkipWs(s, b + 1)
      e == NumberEnd(s, n)
  IN IF k # 0 /\ b <= Len(s) /\ Ch(s, b) = BACKTICK /\ e > n /\ ParenCrAt(s, e)
     THEN Some(SubSeq(s, n, e - 1)) ELSE None

\* <prefix end k>[:\s]*[`₹]?\s*([\d,]+\.?\d*)\s*(?:Cr|Crore): None or Some(group)
LabelAmountFrom(s, k) ==
  LET n == SkipWs(s, OptChar(s, RunEnd(s, k, ":" \o WHITESPACE), GLYPHS))
      e == NumberEnd(s, n)
  IN IF k # 0 /\ e > n /\ CroreAt(s, e) THEN Some(SubSeq(s, n, e - 1)) ELSE None

\* (,\d{3})* at i
RECURSIVE CommaGroupsEnd(_, _)
CommaGroupsEnd(s, i) ==
  IF i + 3 <= Len(s) /\ Ch(s, i) = "," /\ AllDigits(SubSeq(s, i + 1, i + 3))
  THEN CommaGroupsEnd(s, i + 4) ELSE i

\* (\d{1,3}(?:,\d{3})*\.?\d*)\s*\(?[`₹]?\s*cr at i with a leading group of n digits
BareAmountWith(s, i, n) ==
  LET e == RunEnd(s, OptChar(s, CommaGroupsEnd(s, i + n), "."), DIGITS)
  IN IF i + n - 1 <= Len(s) /\ AllDigits(SubSeq(s, i, i + n - 1)) /\ ParenCrAt(s, e)
     THEN Some(SubSeq(s, i, e - 1)) ELSE None

BareAmountAt(s, i) ==
  IF BareAmountWith(s, i, 3) # None THEN BareAmountWith(s, i, 3)
  ELSE IF BareAmountWith(s, i, 2) # None THEN BareAmountWith(s, i, 2)
  ELSE BareAmountWith(s, i, 1)

\* the group of the k-th AUM pattern at i: None or Some(group)
AumPatternAt(k, s, i) ==
  CASE k = 1 -> BacktickAmountAt(s, i, "latest", "aum")
    [] k = 2 -> LabelAmountFrom(s, IF MatchAt("aum", s, i) THEN i + 3 ELSE 0)
    [] k = 3 -> LabelAmountFrom(s, TwoWordsAt(s, i, "net", "assets"))
    [] k = 4 -> LabelAmountFrom(s, TwoWordsAt(s, i, "fund", "size"))
    [] k = 5 -> BacktickAmountAt(s, i, "monthly", "aaum")
    [] OTHER -> BareAmountAt(s, i)

\* re.search of the k-th pattern: the group of the leftmost match, or None
AumSearch(k, s) ==
  LET starts == {j \in 1..Len(s) : AumPatternAt(k, s, j) # None}
  IN IF starts = {} THEN None ELSE AumPatternAt(k, s, Min(starts))

\* the loop of extract_aum_from_text from the k-th pattern on
RECURSIVE AumFromPattern(_, _)
AumFromPattern(k, s) ==
  IF k > 6 THEN None
  ELSE LET m == AumSearch(k, s)
           aum == IF m = None THEN None ELSE float(remove(m[1], ","))
       IN IF aum # None /\ 1000 <= aum[1] /\ aum[1] <= 100000000 THEN aum
          ELSE AumFromPattern(k + 1, s)

\* FactsheetExtractor.extract_aum_from_text: None or Some(hundredths of a crore)
extract_aum_from_text(text) == AumFromPattern(1, lower(text))

(***************************************************************************)
(* Sector and issuer normalization                                         *)
(***************************************************************************)
SECTOR_MAPPINGS ==
  <<<<"it - software", "Information Technology">>,
    <<"it-software", "Information Technology">>,
    <<"information technology", "Information Technology">>,
    <<"software", "Information Technology">>, <<"banks", "Banking">>,
    <<"banking", "Banking">>, <<"private sector bank", "Banking">>,
    <<"public sector bank", "Banking">>, <<"finance", "Financial Services">>,
    <<"financial services", "Financial Services">>, <<"nbfc", "Financial Services">>,
    <<"pharmaceuticals & biotechnology", "Pharmaceuticals">>,
    <<"pharmaceuticals", "Pharmaceuticals">>, <<"pharma", "Pharmaceuticals">>,
    <<"healthcare", "Healthcare">>, <<"consumer durables", "Consumer Durables">>,
    <<"consumer goods", "Consumer Goods">>, <<"fmcg", "FMCG">>,
    <<"retailing", "Retailing">>, <<"retail", "Retailing">>,
    <<"auto components", "Automobile">>, <<"automobiles", "Automobile">>,
    <<"automobile", "Automobile">>, <<"auto", "Automobile">>,
    <<"telecom - services", "Telecom">>, <<"telecom", "Telecom">>,
    <<"telecommunications", "Telecom">>, <<"realty", "Real Estate">>,
    <<"real estate", "Real Estate">>, <<"construction", "Construction">>,
    <<"capital markets", "Capital Markets">>,
    <<"chemicals & petrochemicals", "Chemicals">>, <<"chemicals", "Chemicals">>,
    <<"industrial products", "Industrial Products">>,
    <<"industrial manufacturing", "Industrial Manufacturing">>,
    <<"aerospace & defense", "Aerospace & Defense">>,
    <<"defence", "Aerospace & Defense">>,
    <<"electrical equipment", "Electrical Equipment">>, <<"power", "Power">>,
    <<"oil & gas", "Oil & Gas">>, <<"energy", "Energy">>,
    <<"metals & mining", "Metals & Mining">>,
    <<"cement", "Cement & Construction Materials">>>>

AMC_MAPPINGS ==
  <<<<"motilaloswal", "Motilal Oswal">>, <<"motilal oswal", "Motilal Oswal">>,
    <<"hdfc", "HDFC">>, <<"icici prudential", "ICICI Prudential">>, <<"sbi", "SBI">>,
    <<"axis", "Axis">>, <<"kotak", "Kotak">>, <<"nippon india", "Nippon India">>,
    <<"aditya birla", "Aditya Birla Sun Life">>, <<"dsp", "DSP">>, <<"tata", "Tata">>,
    <<"uti", "UTI">>, <<"franklin templeton", "Franklin Templeton">>,
    <<"mirae asset", "Mirae Asset">>, <<"pgim", "PGIM India">>,
    <<"invesco", "Invesco India">>, <<"edelweiss", "Edelweiss">>,
    <<"canara robeco", "Canara Robeco">>, <<"bandhan", "Bandhan">>,
    <<"quant", "Quant">>, <<"parag parikh", "PPFAS">>, <<"ppfas", "PPFAS">>,
    <<"groww", "Groww">>, <<"baroda bnp", "Baroda BNP Paribas">>>>

\* dict.get on a sequence of <<key, value>> pairs: None or Some(value)
Lookup(pairs, key) ==
  LET hits == {k \in 1..Len(pairs) : pairs[k][1] = key}
  IN IF hits = {} THEN None ELSE Some(pairs[Min(hits)][2])

\* str.title(): a letter is upper-cased after a non-letter, lower-cased after a letter
title(s) ==
  MapCat(LAMBDA i : IF i > 1 /\ isalpha(Ch(s, i - 1)) THEN LowerCh(Ch(s, i))
                    ELSE UpperCh(Ch(s, i)),
         1, Len(s))

\* FactsheetExtractor.normalize_sector
normalize_sector(sector) ==
  IF sector = "" THEN "Unknown"
  ELSE LET hit == Lookup(SECTOR_MAPPINGS, strip(lower(sector)))
       IN IF hit # None THEN hit[1] ELSE title(sector)

\* FactsheetExtractor.normalize_amc
normalize_amc(amc) ==
  IF amc = "" THEN "Unknown"
  ELSE LET hits == {k \in 1..Len(AMC_MAPPINGS) :
                      Contains(AMC_MAPPINGS[k][1], strip(lower(amc)))}
       IN IF hits # {} THEN AMC_MAPPINGS[Min(hits)][2] ELSE title(amc)

\* FactsheetExtractor._build_sector_keyword_map: the fixed table it returns
sector_keywords ==
  <<<<"Banking",
      <<"bank", "hdfc bank", "icici bank", "axis bank", "kotak", "sbi", "indusind",
        "federal bank">>>>,
    <<"Information Technology",
      <<"infosys", "tcs", "wipro", "tech mahindra", "hcl tech", "coforge",
        "ltimindtree", "persistent", "mphasis">>>>,
    <<"Pharmaceuticals",
      <<"pharma", "dr.", "cipla", "sun pharma", "lupin", "divi", "mankind",
        "aurobindo", "biocon">>>>,
    <<"Financial Services",
      <<"bajaj finance", "bajaj finserv", "cholamandalam", "shriram", "muthoot",
        "manappuram", "piramal", "angel one">>>>,
    <<"Automobile",
      <<"auto", "motor", "maruti", "tata motors", "mahindra", "hero motocorp",
        "bajaj auto", "tvs", "ashok leyland", "motherson", "samvardhana">>>>,
    <<"FMCG",
      <<"hindustan unilever", "itc", "nestle", "britannia", "dabur", "marico",
        "godrej consumer", "colgate", "p&g">>>>,
    <<"Telecom",
      <<"bharti airtel", "jio", "vodafone", "indus towers", "telecom">>>>,
    <<"Energy",
      <<"reliance industries", "ongc", "oil india", "bpcl", "ioc", "gail", "ntpc",
        "power grid", "adani power", "tata power">>>>,
    <<"Metals & Mining",
      <<"tata steel", "jsw steel", "hindalco", "vedanta", "coal india", "nmdc",
        "hindustan zinc">>>>,
    <<"Real Estate",
      <<"dlf", "godrej properties", "oberoi realty", "prestige", "phoenix mills",
        "brigade", "sobha", "macrotech">>>>,
    <<"Consumer Durables",
      <<"titan", "havells", "voltas", "whirlpool", "crompton", "dixon", "amber",
        "kalyan jewellers", "v2 retail">>>>,
    <<"Retailing",
      <<"avenue supermarts", "trent", "dmart", "zomato", "swiggy", "nykaa",
        "tata consumer", "devyani">>>>,
    <<"Capital Markets",
      <<"bse", "mcx", "angel one", "icici securities", "exchange", "cams", "kfin",
        "religare">>>>,
    <<"Aerospace & Defense",
      <<"hal", "hindustan aeronautics", "bharat dynamics", "bharat electronics",
        "bel", "zen technologies", "paras defence", "data patterns">>>>,
    <<"Electrical Equipment",
      <<"abb", "siemens", "cg power", "ge vernova", "suzlon", "inox wind",
        "premier energies", "waaree", "apar", "polycab", "kaynes">>>>,
    <<"Industrial Manufacturing",
      <<"larsen", "l&t", "thermax", "cummins", "grindwell norton", "titagarh",
        "ptc industries">>>>,
    <<"Chemicals",
      <<"asian paints", "pidilite", "upl", "srf", "gujarat fluorochemicals",
        "navin fluorine", "deepak nitrite">>>>>>

\* FactsheetExtractor._guess_sector
_guess_sector(security, keyword_map) ==
  LET hits == {k \in 1..Len(keyword_map) : AnyIn(keyword_map[k][2], lower(security))}
  IN IF hits # {} THEN keyword_map[Min(hits)][1] ELSE "Other"

(***************************************************************************)
(* Identifier resolver                                                     *)
(***************************************************************************)
BUILTIN_ISIN_DB ==
  <<<<"hdfc bank", "INE040A01034">>, <<"icici bank", "INE090A01021">>,
    <<"state bank of india", "INE062A01020">>, <<"sbi", "INE062A01020">>,
    <<"axis bank", "INE238A01034">>, <<"kotak mahindra bank", "INE237A01028">>,
    <<"indusind bank", "INE095A01012">>, <<"federal bank", "INE171A01029">>,
    <<"bandhan bank", "INE545U01014">>, <<"idfc first bank", "INE092T01019">>,
    <<"tata consultancy services", "INE467B01029">>, <<"tcs", "INE467B01029">>,
    <<"infosys", "INE009A01021">>, <<"wipro", "INE075A01022">>,
    <<"hcl technologies", "INE860A01027">>, <<"tech mahindra", "INE669C01036">>,
    <<"ltimindtree", "INE214T01019">>, <<"coforge", "INE591G01017">>,
    <<"persistent systems", "INE262H01013">>, <<"mphasis", "INE356A01018">>,
    <<"bajaj finance", "INE296A01024">>, <<"bajaj finserv", "INE918I01018">>,
    <<"hdfc life insurance", "INE795G01014">>,
    <<"sbi life insurance", "INE123W01016">>,
    <<"icici prudential life", "INE726G01019">>,
    <<"cholamandalam investment", "INE121A01024">>,
    <<"shriram finance", "INE721A01013">>, <<"muthoot finance", "INE414G01012">>,
    <<"angel one", "INE732I01013">>, <<"maruti suzuki", "INE585B01010">>,
    <<"tata motors", "INE155A01022">>, <<"mahindra & mahindra", "INE101A01026">>,
    <<"m&m", "INE101A01026">>, <<"bajaj auto", "INE917I01010">>,
    <<"hero motocorp", "INE158A01026">>, <<"eicher motors", "INE066A01021">>,
    <<"tvs motor company", "INE494B01023">>, <<"ashok leyland", "INE208A01029">>,
    <<"samvardhana motherson", "INE775A01035">>,
    <<"samvardhana motherson international", "INE775A01035">>,
    <<"sun pharmaceutical", "INE044A01036">>, <<"sun pharma", "INE044A01036">>,
    <<"dr reddys laboratories", "INE089A01023">>, <<"cipla", "INE059A01026">>,
    <<"divi's laboratories", "INE361B01024">>, <<"lupin", "INE326A01037">>,
    <<"aurobindo pharma", "INE406A01037">>, <<"biocon", "INE376G01013">>,
    <<"mankind pharma", "INE634S01028">>,
    <<"torrent pharmaceuticals", "INE685A01028">>,
    <<"hindustan unilever", "INE030A01027">>, <<"hul", "INE030A01027">>,
    <<"itc", "INE154A01025">>, <<"nestle india", "INE239A01016">>,
    <<"britannia industries", "INE216A01030">>, <<"dabur india", "INE016A01026">>,
    <<"marico", "INE196A01026">>, <<"godrej consumer products", "INE102D01028">>,
    <<"colgate palmolive", "INE259A01022">>,
    <<"tata consumer products", "INE192A01025">>,
    <<"reliance industries", "INE002A01018">>, <<"ongc", "INE213A01029">>,
    <<"oil india", "INE274J01014">>, <<"indian oil corporation", "INE242A01010">>,
    <<"ioc", "INE242A01010">>, <<"bharat petroleum", "INE029A01011">>,
    <<"bpcl", "INE029A01011">>, <<"gail india", "INE129A01019">>,
    <<"bharti airtel", "INE397D01024">>, <<"jio financial services", "INE758E01017">>,
    <<"indus towers", "INE121J01017">>, <<"tata steel", "INE081A01020">>,
    <<"jsw steel", "INE019A01038">>, <<"hindalco industries", "INE038A01020">>,
    <<"vedanta", "INE205A01025">>, <<"coal india", "INE522F01014">>,
    <<"nmdc", "INE584A01023">>, <<"ntpc", "INE733E01010">>,
    <<"power grid corporation", "INE752E01010">>, <<"adani power", "INE814H01011">>,
    <<"tata power", "INE245A01021">>, <<"adani green energy", "INE364U01010">>,
    <<"larsen & toubro", "INE018A01030">>, <<"l&t", "INE018A01030">>,
    <<"siemens", "INE003A01024">>, <<"abb india", "INE117A01022">>,
    <<"bharat heavy electricals", "INE257A01026">>, <<"bhel", "INE257A01026">>,
    <<"cummins india", "INE298A01020">>, <<"titan company", "INE280A01028">>,
    <<"titan", "INE280A01028">>, <<"havells india", "INE176B01034">>,
    <<"voltas", "INE226A01021">>, <<"whirlpool of india", "INE716A01013">>,
    <<"crompton greaves consumer", "INE299U01018">>,
    <<"dixon technologies", "INE935N01020">>,
    <<"dixon technologies (india)", "INE935N01020">>,
    <<"amber enterprises", "INE371P01015">>,
    <<"amber enterprises india", "INE371P01015">>,
    <<"kalyan jewellers", "INE303R01014">>,
    <<"kalyan jewellers india", "INE303R01014">>, <<"dlf", "INE271C01023">>,
    <<"godrej properties", "INE484J01027">>, <<"oberoi realty", "INE093I01010">>,
    <<"prestige estates projects", "INE811K01011">>,
    <<"prestige estates", "INE811K01011">>, <<"phoenix mills", "INE211B01039">>,
    <<"the phoenix mills", "INE211B01039">>,
    <<"brigade enterprises", "INE791I01019">>, <<"sobha", "INE671H01015">>,
    <<"macrotech developers", "INE670K01029">>, <<"bse", "INE118H01025">>,
    <<"bse ltd", "INE118H01025">>, <<"mcx", "INE745G01035">>,
    <<"multi commodity exchange", "INE745G01035">>,
    <<"multi commodity exchange of india", "INE745G01035">>,
    <<"icici securities", "INE763G01038">>, <<"cams", "INE596I01012">>,
    <<"kfin technologies", "INE138Y01010">>,
    <<"religare enterprises", "INE621H01010">>,
    <<"hindustan aeronautics", "INE066F01020">>, <<"hal", "INE066F01020">>,
    <<"bharat electronics", "INE263A01024">>, <<"bel", "INE263A01024">>,
    <<"bharat dynamics", "INE171Z01018">>, <<"zen technologies", "INE251B01027">>,
    <<"data patterns", "INE822Q01010">>, <<"paras defence", "INE114S01016">>,
    <<"cg power and industrial solutions", "INE067A01029">>,
    <<"cg power", "INE067A01029">>, <<"ge vernova t&d india", "INE200A01026">>,
    <<"ge vernova", "INE200A01026">>, <<"ge t&d india", "INE200A01026">>,
    <<"suzlon energy", "INE040H01021">>, <<"inox wind", "INE066P01011">>,
    <<"premier energies", "INE555Y01016">>, <<"waaree energies", "INE377N01016">>,
    <<"apar industries", "INE372A01015">>, <<"polycab india", "INE455K01017">>,
    <<"kaynes technology", "INE918Z01012">>,
    <<"kaynes technology india", "INE918Z01012">>, <<"thermax", "INE152A01029">>,
    <<"grindwell norton", "INE536A01023">>,
    <<"titagarh rail systems", "INE615H01020">>, <<"ptc industries", "INE591D01018">>,
    <<"asian paints", "INE021A01026">>, <<"pidilite industries", "INE318A01026">>,
    <<"upl", "INE628A01036">>, <<"srf", "INE647A01010">>,
    <<"gujarat fluorochemicals", "INE538A01037">>,
    <<"navin fluorine", "INE048G01026">>, <<"deepak nitrite", "INE288B01029">>,
    <<"avenue supermarts", "INE192R01011">>, <<"dmart", "INE192R01011">>,
    <<"trent", "INE849A01020">>, <<"trent ltd", "INE849A01020">>,
    <<"zomato", "INE758T01015">>, <<"swiggy", "INE044G01017">>,
    <<"nykaa", "INE388Y01029">>, <<"fsn e-commerce ventures", "INE388Y01029">>,
    <<"devyani international", "INE872J01015">>, <<"v2 retail", "INE945K01017">>>>

suffixes ==
  <<" limited", " ltd", " ltd.", " pvt", " private",
    " public", " inc", " corp", " corporation",
    " (india)", " india", " & co", " co.">>

\* the suffix loop of _normalize_name from the k-th suffix on
RECURSIVE StripSuffixes(_, _)
StripSuffixes(name, k) ==
  IF k > Len(suffixes) THEN name
  ELSE StripSuffixes(IF endswith(name, suffixes[k])
                     THEN SubSeq(name, 1, Len(name) - Len(suffixes[k]))
                     ELSE name, k + 1)

\* \w or \s
IsWordOrSpace(c) == isalpha(c) \/ isdigit(c) \/ c = "_" \/ isspace(c)

\* _normalize_name without the lower-casing; C13_HdfcBankVariants fails under it
_normalize_name_KeepsCase(name) ==
  LET stripped == StripSuffixes(strip(name), 1)
      kept == MapCat(LAMBDA i : IF IsWordOrSpace(Ch(stripped, i)) THEN Ch(stripped, i) ELSE "",
                     1, Len(stripped))
  IN strip(CollapseWs(kept))

\* ISINMapper._normalize_name
_normalize_name(name) ==
  LET stripped == StripSuffixes(strip(lower(name)), 1)
      kept == MapCat(LAMBDA i : IF IsWordOrSpace(Ch(stripped, i)) THEN Ch(stripped, i) ELSE "",
                     1, Len(stripped))
  IN strip(CollapseWs(kept))

\* the length of the longest common prefix of a[i..ahi] and b[j..bhi]
CommonLen(a, i, ahi, b, j, bhi) ==
  IF SubSeq(a, i, i) # SubSeq(b, j, j) THEN 0
  ELSE Max({k \in 0..Min({ahi - i + 1, bhi - j + 1}) :
              SubSeq(a, i, i + k - 1) = SubSeq(b, j, j + k - 1)})

\* SequenceMatcher.find_longest_match on a[alo..ahi], b[blo..bhi] (1-based,
\* inclusive; no junk): <<i, j, k>> with k maximal, then i minimal, then j minimal
find_longest_match(a, alo, ahi, b, blo, bhi) ==
  LET k == Max({0} \cup {CommonLen(a, i, ahi, b, j, bhi) : i \in alo..ahi, j \in blo..bhi})
      i == Min({x \in alo..ahi : \E y \in blo..bhi : CommonLen(a, x, ahi, b, y, bhi) = k})
      j == Min({y \in blo..bhi : CommonLen(a, i, ahi, b, y, bhi) = k})
  IN IF k = 0 THEN <<alo, blo, 0>> ELSE <<i, j, k>>

\* the total size of SequenceMatcher.get_matching_blocks
RECURSIVE Matches(_, _, _, _, _, _)
Matches(a, alo, ahi, b, blo, bhi) ==
  IF alo > ahi \/ blo > bhi THEN 0
  ELSE LET m == find_longest_match(a, alo, ahi, b, blo, bhi)
       IN IF m[3] = 0 THEN 0
          ELSE m[3] + Matches(a, alo, m[1] - 1, b, blo, m[2] - 1)
                    + Matches(a, m[1] + m[3], ahi, b, m[2] + m[3], bhi)

\* ISINMapper._similarity: SequenceMatcher(None, a, b).ratio() as the
\* fraction <<numerator, denominator>>
_similarity(a, b) ==
  IF Len(a) + Len(b) = 0 THEN <<1, 1>>
  ELSE <<2 * Matches(a, 1, Len(a), b, 1, Len(b)), Len(a) + Len(b)>>

\* fractions with positive denominators
FracLess(x, y) == x[1] * y[2] < y[1] * x[2]
FracMax(x, y) == IF FracLess(x, y) THEN y ELSE x

\* Score without the containment rule; C12_FuzzyMatchThreshold fails under it
Score_RatioOnly(normalized, ref_name) == _similarity(normalized, ref_name)

\* the score get_isin gives one catalog key
Score(normalized, ref_name) ==
  IF Contains(normalized, ref_name) \/ Contains(ref_name, normalized)
  THEN FracMax(_similarity(normalized, ref_name), <<85, 100>>)
  ELSE _similarity(normalized, ref_name)

\* <<Piece(lo), ..., Piece(hi)>>, split in halves
RECURSIVE MapSeq(_, _, _)
MapSeq(Piece(_), lo, hi) ==
  IF lo > hi THEN <<>>
  ELSE IF lo = hi THEN <<Piece(lo)>>
  ELSE MapSeq(Piece, lo, (lo + hi) \div 2) \o MapSeq(Piece, (lo + hi) \div 2 + 1, hi)

\* the largest fraction among fracs[lo..hi], lo <= hi
RECURSIVE FracMaxOf(_, _, _)
FracMaxOf(fracs, lo, hi) ==
  IF lo = hi THEN fracs[lo]
  ELSE FracMax(FracMaxOf(fracs, lo, (lo + hi) \div 2),
               FracMaxOf(fracs, (lo + hi) \div 2 + 1, hi))

\* the fuzzy loop replacing best_match on "score >= best_score", which ends
\* with the last entry of maximal score; C15_FirstMaximumWins fails under it
FuzzyScan_LastMaximum(isin_map, normalized) ==
  LET scores == MapSeq(LAMBDA k : Score(normalized, isin_map[k][1]), 1, Len(isin_map))
      best_score == FracMaxOf(<<(<<0, 1>>)>> \o scores, 1, Len(scores) + 1)
      last == Max({k \in 1..Len(scores) : ~FracLess(scores[k], best_score)})
  IN IF best_score[1] = 0 THEN <<best_score, "-">>
     ELSE <<best_score, isin_map[last][2]>>

\* the fuzzy loop of get_isin: <<best_score, best_match>>.  best_score starts
\* at 0 and is replaced only by a strictly greater score, so the loop ends
\* with the first entry that has the maximal score, if that score is above 0.
FuzzyScan(isin_map, normalized) ==
  LET scores == MapSeq(LAMBDA k : Score(normalized, isin_map[k][1]), 1, Len(isin_map))
      best_score == FracMaxOf(<<(<<0, 1>>)>> \o scores, 1, Len(scores) + 1)
      first == Min({k \in 1..Len(scores) : ~FracLess(scores[k], best_score)})
  IN IF best_score[1] = 0 THEN <<best_score, "-">>
     ELSE <<best_score, isin_map[first][2]>>

\* get_isin returning the first entry whose key contains the normalized name or
\* is contained in it, before it looks for the exact key; C11_ExactMatchWins
\* fails under it
get_isin_ContainmentFirst(isin_map, company_name) ==
  IF company_name = "" THEN "-"
  ELSE LET normalized == _normalize_name(company_name)
           related == {k \in 1..Len(isin_map) :
                         \/ Contains(normalized, isin_map[k][1])
                         \/ Contains(isin_map[k][1], normalized)}
           exact == Lookup(isin_map, normalized)
           best == FuzzyScan(isin_map, normalized)
       IN IF related # {} THEN isin_map[Min(related)][2]
          ELSE IF exact # None THEN exact[1]
          ELSE IF ~FracLess(best[1], <<8, 10>>) THEN best[2]
          ELSE "-"

\* ISINMapper.get_isin with the default threshold 0.8
get_isin(isin_map, company_name) ==
  IF company_name = "" THEN "-"
  ELSE LET normalized == _normalize_name(company_name)
           exact == Lookup(isin_map, normalized)
           best == FuzzyScan(isin_map, normalized)
       IN IF exact # None THEN exact[1]
          ELSE IF ~FracLess(best[1], <<8, 10>>) THEN best[2]
          ELSE "-"

(***************************************************************************)
(* Identifier catalog: ISINMapper.__init__ and _load_csv                   *)
(*                                                                         *)
(* An external reference file is what os.path.exists and pandas.read_csv   *)
(* make of it: path is "" when no csv_path is given, exists tells whether  *)
(* the path is a file, readable is FALSE when read_csv raises (an empty    *)
(* file, a tokenizing error), columns are the column labels and each row   *)
(* gives str() of the row's value under each column.                       *)
(***************************************************************************)
CsvFile(path, exists, readable, columns, rows) ==
  [path |-> path, exists |-> exists, readable |-> readable,
   columns |-> columns, rows |-> rows]

\* isin_map[key] = value on a dict, which keeps insertion order: a key it
\* has keeps its place, a new key goes last
Store(pairs, key, value) ==
  IF \E k \in 1..Len(pairs) : pairs[k][1] = key
  THEN [k \in 1..Len(pairs) |-> IF pairs[k][1] = key THEN <<key, value>> ELSE pairs[k]]
  ELSE Append(pairs, <<key, value>>)

name_col_words == <<"security", "company", "name">>

\* the column loop of _load_csv: the 1-based positions of name_col and
\* isin_col, 0 for None; the last matching column wins
NameColumn(columns) ==
  Max({0} \cup {k \in 1..Len(columns) : AnyIn(name_col_words, lower(columns[k]))})

IsinColumn(columns) ==
  Max({0} \cup {k \in 1..Len(columns) :
                  /\ ~AnyIn(name_col_words, lower(columns[k]))
                  /\ Contains("isin", lower(columns[k]))})

\* the body of the row loop of _load_csv for one row
LoadRow(mapper, name_cell, isin_cell) ==
  IF strip(name_cell) # "" /\ strip(isin_cell) # "" /\ startswith(strip(isin_cell), "INE")
  THEN [isin_map |-> Store(mapper.isin_map, _normalize_name(strip(name_cell)),
                           strip(isin_cell)),
        company_names |-> Append(mapper.company_names, strip(name_cell))]
  ELSE mapper

\* the row loop of _load_csv
RECURSIVE LoadRows(_, _, _, _)
LoadRows(mapper, rows, name_col, isin_col) ==
  IF rows = <<>> THEN mapper
  ELSE LoadRows(LoadRow(mapper, Head(rows)[name_col], Head(rows)[isin_col]),
                Tail(rows), name_col, isin_col)

\* _load_csv emptying the catalog when the file cannot be read;
\* C17_UnusableFileLeavesBuiltIn fails under it
_load_csv_ClearsOnError(mapper, csv) ==
  IF ~csv.readable THEN [isin_map |-> <<>>, company_names |-> <<>>]
  ELSE IF NameColumn(csv.columns) = 0 \/ IsinColumn(csv.columns) = 0 THEN mapper
  ELSE LoadRows(mapper, csv.rows, NameColumn(csv.columns), IsinColumn(csv.columns))

\* ISINMapper._load_csv: an exception of read_csv is caught and logged
_load_csv(mapper, csv) ==
  IF ~csv.readable THEN mapper
  ELSE IF NameColumn(csv.columns) = 0 \/ IsinColumn(csv.columns) = 0 THEN mapper
  ELSE LoadRows(mapper, csv.rows, NameColumn(csv.columns), IsinColumn(csv.columns))

\* ISINMapper.__init__ loading the external table before the built-in one;
\* C16_EquityRowsOverrideBuiltIn fails under it
ISINMapper_BuiltInLast(csv) ==
  LET loaded == IF csv.path # "" /\ csv.exists
                THEN _load_csv([isin_map |-> <<>>, company_names |-> <<>>], csv)
                ELSE [isin_map |-> <<>>, company_names |-> <<>>]
      overridden == [k \in 1..Len(loaded.isin_map) |->
                       IF Lookup(BUILTIN_ISIN_DB, loaded.isin_map[k][1]) # None
                       THEN <<loaded.isin_map[k][1],
                              Lookup(BUILTIN_ISIN_DB, loaded.isin_map[k][1])[1]>>
                       ELSE loaded.isin_map[k]]
      added == SelectSeq(BUILTIN_ISIN_DB,
                         LAMBDA pair : Lookup(loaded.isin_map, pair[1]) = None)
  IN [loaded EXCEPT !.isin_map = overridden \o added]

\* ISINMapper.__init__
ISINMapper(csv) ==
  IF csv.path # "" /\ csv.exists
  THEN _load_csv([isin_map |-> BUILTIN_ISIN_DB, company_names |-> <<>>], csv)
  ELSE [isin_map |-> BUILTIN_ISIN_DB, company_names |-> <<>>]

(***************************************************************************)
(* Metadata extractor: report date, issuer, fund name, sector allocation   *)
(***************************************************************************)
\* extract_date_from_filename searching the year-month pattern before the six
\* digits in front of the extension; C18_ReportDatePrecedence fails under it
extract_date_from_filename_AnywhereFirst(filename, now) ==
  LET n == Len(filename)
      starts == {i \in 1..n :
                   /\ i + 5 <= n /\ AllDigits(SubSeq(filename, i, i + 3))
                   /\ LET j == OptChar(filename, i + 4, "-_")
                      IN j + 1 <= n /\ AllDigits(SubSeq(filename, j, j + 1))}
  IN IF starts # {}
     THEN LET i == Min(starts)
              j == OptChar(filename, i + 4, "-_")
          IN SubSeq(filename, i, i + 3) \o "-" \o SubSeq(filename, j, j + 1) \o "-01"
     ELSE IF n >= 10 /\ lower(SubSeq(filename, n - 3, n)) = ".pdf"
             /\ AllDigits(SubSeq(filename, n - 9, n - 4))
     THEN SubSeq(filename, n - 9, n - 6) \o "-" \o SubSeq(filename, n - 5, n - 4) \o "-01"
     ELSE now \o "-01"

\* FactsheetExtractor.extract_date_from_filename; now is datetime.now() as "YYYY-MM"
extract_date_from_filename(filename, now) ==
  LET n == Len(filename)
      starts == {i \in 1..n :
                   /\ i + 5 <= n /\ AllDigits(SubSeq(filename, i, i + 3))
                   /\ LET j == OptChar(filename, i + 4, "-_")
                      IN j + 1 <= n /\ AllDigits(SubSeq(filename, j, j + 1))}
  IN IF n >= 10 /\ lower(SubSeq(filename, n - 3, n)) = ".pdf"
        /\ AllDigits(SubSeq(filename, n - 9, n - 4))
     THEN SubSeq(filename, n - 9, n - 6) \o "-" \o SubSeq(filename, n - 5, n - 4) \o "-01"
     ELSE IF starts # {}
     THEN LET i == Min(starts)
              j == OptChar(filename, i + 4, "-_")
          IN SubSeq(filename, i, i + 3) \o "-" \o SubSeq(filename, j, j + 1) \o "-01"
     ELSE now \o "-01"

\* os.path.splitext(filename)[0] for a filename without directory separators:
\* the extension starts at the last dot that follows a character other than a dot
splitext_root(filename) ==
  LET dots == {i \in 2..Len(filename) :
                 Ch(filename, i) = "." /\ \E j \in 1..(i - 1) : Ch(filename, j) # "."}
  IN IF dots = {} THEN filename ELSE SubSeq(filename, 1, Max(dots) - 1)

\* FactsheetExtractor.extract_amc_from_filename
extract_amc_from_filename(filename) ==
  LET base == lstrip(MapCat(LAMBDA i : IF Ch(splitext_root(filename), i) = "_" THEN " "
                                       ELSE Ch(splitext_root(filename), i),
                            1, Len(splitext_root(filename))))
      stop == Min({j \in 1..(Len(base) + 1) : j = Len(base) + 1 \/ isspace(Ch(base, j))})
  IN IF base = "" THEN "Unknown" ELSE normalize_amc(SubSeq(base, 1, stop - 1))

WORDCHARS == UPPER \o LOWER \o DIGITS \o "_"

\* literal <w>\s* at i on lower-cased text: the position after it, or 0
WordWsAt(s, i, w) == IF i # 0 /\ MatchAt(w, s, i) THEN SkipWs(s, i + Len(w)) ELSE 0

\* (?:and|&)?\s* at i
OptAndAt(s, i) ==
  IF i = 0 THEN 0
  ELSE IF MatchAt("and", s, i) THEN SkipWs(s, i + 3)
  ELSE IF MatchAt("&", s, i) THEN SkipWs(s, i + 1)
  ELSE i

\* the cap-size alternatives followed by \s*Fund at i: the position after
\* "Fund", or 0.  Which alternative matches is decided by the text.
CapFundAt(s, i) ==
  LET large == WordWsAt(s, i, "large")
      ends == {WordWsAt(s, WordWsAt(s, OptAndAt(s, large), "mid"), "cap"),
               WordWsAt(s, large, "cap"),
               WordWsAt(s, WordWsAt(s, i, "mid"), "cap"),
               WordWsAt(s, WordWsAt(s, i, "small"), "cap"),
               WordWsAt(s, WordWsAt(s, i, "multi"), "cap"),
               WordWsAt(s, WordWsAt(s, i, "flexi"), "cap")}
      funds == {e + 4 : e \in {x \in ends : x # 0 /\ MatchAt("fund", s, x)}}
  IN IF funds = {} THEN 0 ELSE Max(funds)

\* re.search of ([\w\s]+<tail>) on lower-cased s, where TailAt(p) is the
\* position after a match of <tail> at p, or 0: <<>> or <<start, end>>
\* (end exclusive).  The leftmost start wins, then the longest [\w\s]+ .
GreedyPrefixSearch(s, TailAt(_)) ==
  LET tails == {p \in 1..Len(s) : TailAt(p) # 0}
      ok(i, p) == p > i /\ RunEnd(s, i, WORDCHARS \o WHITESPACE) >= p
      starts == {i \in 1..Len(s) : \E p \in tails : ok(i, p)}
  IN IF starts = {} THEN <<>>
     ELSE LET i == Min(starts)
              p == Max({x \in tails : ok(i, x)})
          IN <<i, TailAt(p)>>

\* FactsheetExtractor.extract_fund_name_from_text
extract_fund_name_from_text(text) ==
  LET s == lower(text)
      m1 == GreedyPrefixSearch(s, LAMBDA p : CapFundAt(s, p))
      m2 == GreedyPrefixSearch(s, LAMBDA p : IF MatchAt("fund", s, p) THEN p + 4 ELSE 0)
      name(m) == CollapseWs(strip(SubSeq(text, m[1], m[2] - 1)))
  IN IF m1 # <<>> /\ Len(name(m1)) > 10 THEN name(m1)
     ELSE IF m2 # <<>> /\ Len(name(m2)) > 10 THEN name(m2)
     ELSE "Unknown Fund"

\* the class [A-Za-z\s&\-] of the sector-allocation pattern
SECTORCHARS == UPPER \o LOWER \o WHITESPACE \o "&-"

\* a match of ([A-Za-z\s&\-]+)\s+(\d+\.?\d*)% at i: <<>> or <<[name, number, end]>>
SectorPctAt(text, i) ==
  LET e == RunEnd(text, i, SECTORCHARS)
      d1 == RunEnd(text, e, DIGITS)
      d2 == RunEnd(text, OptChar(text, d1, "."), DIGITS)
  IN IF /\ e - 1 >= i + 1 /\ isspace(Ch(text, e - 1))
        /\ d1 > e /\ d2 <= Len(text) /\ Ch(text, d2) = "%"
     THEN <<[name |-> SubSeq(text, i, e - 2), number |-> SubSeq(text, e, d2 - 1),
             end |-> d2 + 1]>>
     ELSE <<>>

RECURSIVE SectorFindAll(_, _)
SectorFindAll(text, i) ==
  LET starts == {j \in i..Len(text) : SectorPctAt(text, j) # <<>>}
  IN IF starts = {} THEN <<>>
     ELSE LET m == SectorPctAt(text, Min(starts))
          IN m \o SectorFindAll(text, m[1].end)

\* the loop over the matches of one page, adding to sector_allocation
RECURSIVE AddSectorMatches(_, _)
AddSectorMatches(sector_allocation, matches) ==
  IF matches = <<>> THEN sector_allocation
  ELSE LET sector == strip(Head(matches).name)
           pct == float(Head(matches).number)[1]
           normalized_sector == normalize_sector(sector)
       IN AddSectorMatches(
            IF /\ Len(sector) > 3 /\ pct > 0 /\ pct <= 10000
               /\ Lookup(sector_allocation, normalized_sector) = None
            THEN Append(sector_allocation, <<normalized_sector, pct>>)
            ELSE sector_allocation,
            Tail(matches))

\* the loop of extract_sector_allocation over the page texts
RECURSIVE SectorAllocationOfPages(_, _)
SectorAllocationOfPages(sector_allocation, texts) ==
  IF texts = <<>> THEN sector_allocation
  ELSE SectorAllocationOfPages(
         AddSectorMatches(sector_allocation, SectorFindAll(Head(texts), 1)), Tail(texts))

(***************************************************************************)
(* Documents                                                               *)
(*                                                                         *)
(* A document is what pdfplumber makes of a file: whether it opens, and    *)
(* per page the extracted text and the candidate tables.  raises is the    *)
(* message of an exception the runtime raises inside the try block of      *)
(* process_pdf while the document is processed ("" when none is raised).   *)
(***************************************************************************)
MaxBatch == 2
MaxRows == 2

H_DUAL == <<"Scrip", "Weightage (%)", "Scrip", "Weightage (%)">>
H_FIRST == <<"Security Name", "Weight", "Sector", "Value">>
H_SECOND == <<"Sr", "Stock Name", "% to NAV", "Market Value">>
H_NONE == <<"A", "B", "C", "D">>

Headers == {H_DUAL, H_FIRST, H_SECOND, H_NONE}

RowSet ==
  {<<"Reliance Industries", "8.5%", "TCS", "6.2%">>,
   <<"1", "Infosys  Ltd", "(1.2)%", "NA">>,
   <<"Total", "total", "TOTAL", "100.0">>,
   <<"3", "ITC Ltd", "10.0", "25.5">>,
   <<"4", "Wipro", "5.0", "0">>,
   <<"HDFC Bank Ltd", "10.0">>}

\* the sequences over S of length at most n
RECURSIVE SeqsUpTo(_, _)
SeqsUpTo(S, n) ==
  IF n = 0 THEN {<<>>}
  ELSE SeqsUpTo(S, n - 1) \cup {Append(q, x) : q \in SeqsUpTo(S, n - 1), x \in S}

Page(text, tables) == [text |-> text, tables |-> tables]

Document(filename, openable, raises, pages) ==
  [filename |-> filename, openable |-> openable, raises |-> raises, pages |-> pages]

TEXT_AUM == "Axis Flexi Cap Fund\nAUM: $1,000 Cr\nBanking 15.2%"

\* one page, one table: a header and up to MaxRows rows
GeneratedDocs ==
  {Document("gen.pdf", TRUE, "", <<Page(TEXT_AUM, <<(<<h>> \o rows)>>)>>) :
     h \in Headers, rows \in SeqsUpTo(RowSet, MaxRows)}

NamedDocs ==
  {Document("HDFC_BlueChip_202412.pdf", TRUE, "",
            <<Page("HDFC Large Cap Fund\nAUM: $1,000 Cr",
                   << <<H_DUAL, <<"Reliance Industries", "8.5%", "TCS", "6.2%">>,
                        <<"HDFC Bank Ltd", "10.0", "Total", "100.0">>>> >>)>>),
   Document("SBI_Focused_2024-11.pdf", TRUE, "",
            <<Page("Net Assets: 500 Crores\nIT - Software 12.5%",
                   << <<H_SECOND, <<"1", "Infosys  Ltd", "(1.2)%", "0">>,
                        <<"2", "Wipro", "0", "NA">>,
                        <<"", "Grand Total", "100", "">>>> >>)>>),
   Document("axis_midcap.pdf", TRUE, "",
            <<Page("Infosys Ltd 5.00\nTotal 100.00",
                   << <<H_FIRST, <<"Infosys", "5.0", "IT", "">>>> >>)>>),
   Document("scan.pdf", TRUE, "",
            <<Page("Zomato Ltd. 6.9", <<>>), Page("tOTAL 99.50", <<>>)>>),
   Document("HDFC_BlueChip_202412.pdf", TRUE, "out of memory",
            <<Page("HDFC Large Cap Fund\nAUM: $1,000 Cr",
                   << <<H_DUAL, <<"Reliance Industries", "8.5%", "TCS", "6.2%">>>> >>)>>),
   Document("broken.pdf", FALSE, "", <<>>),
   Document("corrupt_202413.pdf", FALSE, "", <<>>)}

DocSet == NamedDocs \cup GeneratedDocs

Batches == {q \in SeqsUpTo(NamedDocs, MaxBatch) : q # <<>>} \cup {<<d>> : d \in GeneratedDocs}

\* datetime.now() as "YYYY-MM"
Months == {"2026-11", "2026-12"}

(***************************************************************************)
(* External reference files, names to resolve, filenames                   *)
(***************************************************************************)
MaxLookups == 3

NO_CSV == CsvFile("", FALSE, FALSE, <<>>, <<>>)

CsvFiles ==
  {NO_CSV,
   CsvFile("data/isin_master.csv", FALSE, FALSE, <<>>, <<>>),
   CsvFile("isin_master.csv", TRUE, FALSE, <<>>, <<>>),
   CsvFile("List_of_Companies.csv", TRUE, TRUE, <<"Sr No", "Company Name", "Series">>,
           << <<"1", "HDFC Bank Limited", "EQ">>, <<"2", "IRCTC Ltd", "EQ">> >>),
   CsvFile("data/isin_master.csv", TRUE, TRUE, <<"Sr No", "Security Name", "ISIN No">>,
           << <<"1", "HDFC Bank Limited", "INE040A01099">>,
              <<"2", "IRCTC Ltd", " INE335Y01020">>,
              <<"3", "HDFC Bank Ltd.", "INE040A01100">>,
              <<"4", "Axis Bank Ltd", "INF846K01131">>,
              <<"5", "nan", "INE999Z01011">>,
              <<"6", "Wipro Ltd", "nan">> >>),
   CsvFile("data/List_of_Companies.csv", TRUE, TRUE, <<"Company", "ISIN">>,
           << <<"SBI Life Insurance Company Limited", "INE123W01016">> >>)}

\* "HDFC Bank Ltd" in other letter cases and with the other suffix tokens
HdfcBankVariants ==
  {"HDFC Bank Ltd", "hdfc bank ltd", "HDFC BANK LTD.", "hdfc bank limited",
   "Hdfc Bank Pvt", "HDFC Bank Inc", "HDFC Bank Corp", "HDFC Bank (India)",
   "hdfc bank INDIA", "HDFC Bank & Co", "HDFC BANK"}

Names ==
  HdfcBankVariants
    \cup {"", "-", "SBI Life Insurance", "SBI Life", "IRCTC", "Wiipro"}

Stems == {"HDFC_BlueChip_", "UTI_2023-05_", "Axis_202305_v2_", "sbi-", ""}

Tails == {"202412", "2024-11", "2024_11", "report", "202413", "30112024", "12345_2024-11"}

Extensions == {".pdf", ".PDF"}

\* filenames whose stem has no token
Tokenless == {"_.pdf", "__.PDF", " .pdf"}

Filenames ==
  {stem \o tail \o ext : stem \in Stems, tail \in Tails, ext \in Extensions} \cup Tokenless

RECURSIVE Flatten(_)
Flatten(seqs) == IF seqs = <<>> THEN <<>> ELSE Head(seqs) \o Flatten(Tail(seqs))

\* all_text of extract_portfolio_table
all_text(doc) == MapCat(LAMBDA i : doc.pages[i].text \o "\n", 1, Len(doc.pages))

\* all_tables of extract_portfolio_table: the tables with more than one row
all_tables(doc) ==
  Flatten([i \in 1..Len(doc.pages) |->
             SelectSeq(doc.pages[i].tables, LAMBDA t : t # <<>> /\ Len(t) > 1)])

PageTexts(doc) == [i \in 1..Len(doc.pages) |-> doc.pages[i].text]

(***************************************************************************)
(* Enrichment of one holding in process_pdf                                *)
(***************************************************************************)
EnrichedSector(holding) ==
  IF holding.sector = "Unknown" THEN _guess_sector(holding.security, sector_keywords)
  ELSE normalize_sector(holding.sector)

EnrichedIsin(holding) ==
  IF holding.isin = "" THEN get_isin(BUILTIN_ISIN_DB, holding.security) ELSE holding.isin

\* EnrichedMarketValue multiplying the weight as a fraction instead of a
\* percentage; C7_ComputedValue fails under it
EnrichedMarketValue_NoPercent(holding, aum_cr) ==
  IF Truthy(aum_cr) /\ holding.pct_of_aum > 0 /\ ~Truthy(holding.market_value)
  THEN Some(RoundDiv(holding.pct_of_aum * aum_cr[1], 100))
  ELSE holding.market_value

\* round((pct_of_aum / 100) * aum_cr, 2) when the AUM is truthy, the weight is
\* above 0 and market_value is falsy.  The quotient is exact for the amounts of
\* the documents below, which are whole crores.
EnrichedMarketValue(holding, aum_cr) ==
  IF Truthy(aum_cr) /\ holding.pct_of_aum > 0 /\ ~Truthy(holding.market_value)
  THEN Some(RoundDiv(holding.pct_of_aum * aum_cr[1], 10000))
  ELSE holding.market_value

(***************************************************************************)
(* The functions of a document's text and tables, tabulated over the       *)
(* documents of the model                                                  *)
(***************************************************************************)
\* the function f with every value computed
Tabulated(f) == f @@ <<>>

TextSet == {all_text(d) : d \in DocSet}

process_tables_of == Tabulated([d \in DocSet |-> ScanTables(all_tables(d), "Unknown")])

text_holdings_of == Tabulated([t \in TextSet |-> _extract_holdings_from_text(t)])

fund_name_of == Tabulated([t \in TextSet |-> extract_fund_name_from_text(t)])

aum_of == Tabulated([t \in TextSet |-> extract_aum_from_text(t)])

sector_allocation_of ==
  Tabulated([texts \in {PageTexts(d) : d \in DocSet} |-> SectorAllocationOfPages(<<>>, texts)])

Range(f) == {f[x] : x \in DOMAIN f}

Catalogs == {ISINMapper(c).isin_map : c \in CsvFiles}

isin_of ==
  Tabulated([entries \in Catalogs |->
               Tabulated([n \in Names |-> get_isin(entries, n)])])

\* get_isin on a catalog, looked up in the table when the table has it
Resolve(isin_map, company_name) ==
  IF isin_map \in Catalogs THEN isin_of[isin_map][company_name]
  ELSE get_isin(isin_map, company_name)

RawHoldings ==
  UNION {Range(process_tables_of[d]) : d \in DocSet}
    \cup UNION {Range(text_holdings_of[t]) : t \in TextSet}

\* the sector and ISIN process_pdf gives a holding
enriched_of ==
  Tabulated([h \in RawHoldings |->
               [h EXCEPT !.sector = EnrichedSector(h), !.isin = EnrichedIsin(h)]])

EnrichHolding(holding, aum_cr) ==
  [enriched_of[holding] EXCEPT !.market_value = EnrichedMarketValue(holding, aum_cr)]

(***************************************************************************)
(* State                                                                   *)
(***************************************************************************)
VARIABLES
  pdf_files,               \* the batch given to process_multiple_pdfs
  clock,                   \* the month datetime.now() gives
  pc,                      \* where the batch loop stands
  pdf_idx,                 \* how many documents the loop has finished
  holdings,                \* holdings of the document in hand
  metadata,                \* metadata of the document in hand
  result,                  \* what process_pdf returned for the document in hand
  results,                 \* every value process_pdf returned, in order
  all_holdings,            \* the locals of process_multiple_pdfs
  all_metadata,
  all_sector_allocations,
  errors,
  csv_file,                \* the external reference file of the deployment
  isin_mapper,             \* the ISINMapper of the pipeline instance
  calls,                   \* how many times get_isin has been called
  lookups,                 \* the names get_isin was called with, each with what it returned
  class_db,                \* the class attribute ISINMapper.BUILTIN_ISIN_DB
  other_mapper,            \* the ISINMapper of another pipeline instance
  args,                    \* the arguments of the function that is called on its own
  returned                 \* what that function returned

vars == <<pdf_files, clock, pc, pdf_idx, holdings, metadata, result, results,
          all_holdings, all_metadata, all_sector_allocations, errors,
          csv_file, isin_mapper, calls, lookups, class_db, other_mapper, args, returned>>

\* what the batch loop does not assign
catalog == <<csv_file, isin_mapper, calls, lookups, class_db, other_mapper, args, returned>>

\* no other instance, no function called on its own
Untouched ==
  /\ class_db = BUILTIN_ISIN_DB
  /\ other_mapper = [isin_map |-> <<>>, company_names |-> <<>>]
  /\ args = <<>>
  /\ returned = <<>>

batch == <<all_holdings, all_metadata, all_sector_allocations, errors>>

\* the document in hand
pdf_path == pdf_files[pdf_idx + 1]

NoResult == [success |-> FALSE, filename |-> "", metadata |-> <<>>, holdings |-> <<>>,
             sector_allocation |-> <<>>, errors |-> <<>>]

NoMetadata == [amc |-> "", fund_name |-> "", date |-> "", aum_cr |-> None]

Init ==
  /\ pdf_files \in Batches
  /\ clock \in Months
  /\ pc = "loop"
  /\ pdf_idx = 0
  /\ holdings = <<>>
  /\ metadata = NoMetadata
  /\ result = NoResult
  /\ results = <<>>
  /\ all_holdings = <<>>
  /\ all_metadata = <<>>
  /\ all_sector_allocations = <<>>
  /\ errors = <<>>
  /\ csv_file = NO_CSV
  /\ isin_mapper = ISINMapper(NO_CSV)
  /\ calls = 0
  /\ lookups = {}
  /\ Untouched

\* extract_portfolio_table updating a metadata dict kept from the previous
\* document instead of a new one, so that a field the text does not give keeps
\* its earlier value; C20_NoLeakAcrossDocuments fails under it
ExtractTables_KeepsEarlierMetadata ==
  /\ pc = "loop" /\ pdf_idx < Len(pdf_files) /\ pdf_path.openable
  /\ LET earlier == IF results # <<>> /\ results[Len(results)].success
                    THEN results[Len(results)].metadata ELSE NoMetadata
     IN metadata' = [NoMetadata EXCEPT
                       !.fund_name = fund_name_of[all_text(pdf_path)],
                       !.aum_cr = IF aum_of[all_text(pdf_path)] # None
                                  THEN aum_of[all_text(pdf_path)] ELSE earlier.aum_cr]
  /\ holdings' = process_tables_of[pdf_path]
  /\ pc' = "fallback"
  /\ UNCHANGED <<pdf_files, clock, pdf_idx, result, results, batch, catalog>>

\* extract_portfolio_table up to the table loop of _process_tables, for a
\* document pdfplumber opens.  (The "as on" date found in the text is put in
\* metadata['date'], which process_pdf overwrites before anything reads it.)
ExtractTables ==
  /\ pc = "loop" /\ pdf_idx < Len(pdf_files) /\ pdf_path.openable
  /\ metadata' = [NoMetadata EXCEPT !.fund_name = fund_name_of[all_text(pdf_path)],
                                    !.aum_cr = aum_of[all_text(pdf_path)]]
  /\ holdings' = process_tables_of[pdf_path]
  /\ pc' = "fallback"
  /\ UNCHANGED <<pdf_files, clock, pdf_idx, result, results, batch, catalog>>

\* pdfplumber.open raises; extract_portfolio_table logs it and returns the
\* initial holdings and metadata
OpenFails ==
  /\ pc = "loop" /\ pdf_idx < Len(pdf_files) /\ ~pdf_path.openable
  /\ metadata' = NoMetadata
  /\ holdings' = <<>>
  /\ pc' = "enrich"
  /\ UNCHANGED <<pdf_files, clock, pdf_idx, result, results, batch, catalog>>

\* FallbackHoldings adding the text holdings to the table holdings;
\* C10_FallbackOnlyWhenNoTableHolding fails under it
FallbackHoldings_Always(table_holdings, text) == table_holdings \o text_holdings_of[text]

\* the end of _process_tables: "if not holdings: holdings = text extraction"
FallbackHoldings(table_holdings, text) ==
  IF table_holdings = <<>> THEN text_holdings_of[text] ELSE table_holdings

TextFallback ==
  /\ pc = "fallback"
  /\ holdings' = FallbackHoldings(holdings, all_text(pdf_path))
  /\ pc' = "enrich"
  /\ UNCHANGED <<pdf_files, clock, pdf_idx, metadata, result, results, batch, catalog>>

\* metadata['amc'] of process_pdf
MetadataAmc(amc, md) == IF amc # "Unknown" THEN amc ELSE md.amc

HoldingRecord(date, amc, fund_name, holding) ==
  [date |-> date, amc |-> amc, fund_name |-> fund_name,
   security |-> holding.security, isin |-> holding.isin, sector |-> holding.sector,
   pct_of_aum |-> holding.pct_of_aum, market_value |-> holding.market_value,
   quantity |-> holding.quantity]

\* the try block of process_pdf after extract_portfolio_table
Enriched(d, now, hs, md) ==
  LET date == extract_date_from_filename(d.filename, now)
      amc == MetadataAmc(extract_amc_from_filename(d.filename), md)
  IN [success |-> TRUE,
      filename |-> d.filename,
      metadata |-> [md EXCEPT !.date = date, !.amc = amc],
      holdings |-> [i \in 1..Len(hs) |->
                      HoldingRecord(date, amc, md.fund_name, EnrichHolding(hs[i], md.aum_cr))],
      sector_allocation |-> IF d.openable THEN sector_allocation_of[PageTexts(d)] ELSE <<>>,
      errors |-> <<>>]

\* the except block of process_pdf: result['errors'].append(str(e))
Failed(d, e) ==
  [success |-> FALSE, filename |-> d.filename, metadata |-> <<>>, holdings |-> <<>>,
   sector_allocation |-> <<>>, errors |-> <<e>>]

\* extract_portfolio_table as a function of the document
extract_portfolio_table(d) ==
  IF d.openable
  THEN [holdings |-> FallbackHoldings(process_tables_of[d], all_text(d)),
        metadata |-> [NoMetadata EXCEPT !.fund_name = fund_name_of[all_text(d)],
                                        !.aum_cr = aum_of[all_text(d)]]]
  ELSE [holdings |-> <<>>, metadata |-> NoMetadata]

\* process_pdf as a function of the document and the clock
process_pdf(d, now) ==
  IF d.raises # "" THEN Failed(d, d.raises)
  ELSE Enriched(d, now, extract_portfolio_table(d).holdings,
                extract_portfolio_table(d).metadata)

Enrich ==
  /\ pc = "enrich" /\ pdf_path.raises = ""
  /\ result' = Enriched(pdf_path, clock, holdings, metadata)
  /\ pc' = "collect"
  /\ UNCHANGED <<pdf_files, clock, pdf_idx, holdings, metadata, results, batch, catalog>>

CatchException ==
  /\ pc = "enrich" /\ pdf_path.raises # ""
  /\ result' = Failed(pdf_path, pdf_path.raises)
  /\ pc' = "collect"
  /\ UNCHANGED <<pdf_files, clock, pdf_idx, holdings, metadata, results, batch, catalog>>

\* CollectedHoldings losing the holdings gathered so far when a document fails;
\* C2_BatchConcatenates fails under it
CollectedHoldings_ResetOnFailure(all, r) == IF r.success THEN all \o r.holdings ELSE <<>>

\* the body of the loop of process_multiple_pdfs after process_pdf returned
CollectedHoldings(all, r) == IF r.success THEN all \o r.holdings ELSE all

CollectedErrors(errs, r) == IF r.success THEN errs ELSE errs \o r.errors

Collect ==
  /\ pc = "collect"
  /\ all_holdings' = CollectedHoldings(all_holdings, result)
  /\ all_metadata' =
       IF result.success
       THEN Append(all_metadata, [filename |-> pdf_path.filename, metadata |-> result.metadata])
       ELSE all_metadata
  /\ all_sector_allocations' =
       IF result.success
       THEN Append(all_sector_allocations,
                   [filename |-> pdf_path.filename, amc |-> result.metadata.amc,
                    fund_name |-> result.metadata.fund_name,
                    date |-> result.metadata.date,
                    allocation |-> result.sector_allocation])
       ELSE all_sector_allocations
  /\ errors' = CollectedErrors(errors, result)
  /\ results' = Append(results, result)
  /\ pdf_idx' = pdf_idx + 1
  /\ holdings' = <<>>
  /\ metadata' = NoMetadata
  /\ result' = NoResult
  /\ pc' = "loop"
  /\ UNCHANGED <<pdf_files, clock, catalog>>

\* process_multiple_pdfs returns the combined result
Return ==
  /\ pc = "loop" /\ pdf_idx = Len(pdf_files)
  /\ pc' = "done"
  /\ UNCHANGED <<pdf_files, clock, pdf_idx, holdings, metadata, result, results, batch, catalog>>

Next ==
  \/ ExtractTables
  \/ OpenFails
  \/ TextFallback
  \/ Enrich
  \/ CatchException
  \/ Collect
  \/ Return

Spec == Init /\ [][Next]_vars

(***************************************************************************)
(* The identifier resolver on its own: an ISINMapper is built from an      *)
(* external reference file, then get_isin is called on it                  *)
(***************************************************************************)
NoMapper == [isin_map |-> <<>>, company_names |-> <<>>]

\* one call of get_isin with what it returned
Lookup2(company_name, isin) == [company_name |-> company_name, isin |-> isin]

\* the pipeline variables at rest
PipelineIdle ==
  /\ pdf_idx = 0
  /\ holdings = <<>>
  /\ metadata = NoMetadata
  /\ result = NoResult
  /\ results = <<>>
  /\ all_holdings = <<>>
  /\ all_metadata = <<>>
  /\ all_sector_allocations = <<>>
  /\ errors = <<>>

MapperInit ==
  /\ PipelineIdle
  /\ pdf_files = <<>>
  /\ clock = "2026-11"
  /\ pc = "new"
  /\ csv_file \in CsvFiles
  /\ isin_mapper = NoMapper
  /\ calls = 0
  /\ lookups = {}
  /\ Untouched

\* ISINMapper(csv_path)
NewMapper ==
  /\ pc = "new"
  /\ isin_mapper' = ISINMapper(csv_file)
  /\ pc' = "ready"
  /\ UNCHANGED <<pdf_files, clock, pdf_idx, holdings, metadata, result, results, batch,
                 csv_file, calls, lookups, class_db, other_mapper, args, returned>>

\* get_isin removing from the catalog the entries with the code it returns;
\* C14_ResolutionIdempotent fails under it
MapperAfterGetIsin_PopsMatch(mapper, company_name) ==
  [mapper EXCEPT !.isin_map =
     SelectSeq(mapper.isin_map,
               LAMBDA pair : pair[2] # Resolve(mapper.isin_map, company_name))]

\* the ISINMapper after get_isin, which assigns to no attribute of self
MapperAfterGetIsin(mapper, company_name) == mapper

\* isin_mapper.get_isin(company_name) with the default threshold
GetIsin ==
  /\ pc = "ready" /\ calls < MaxLookups
  /\ \E company_name \in Names :
       /\ lookups' = lookups \cup {Lookup2(company_name,
                                            Resolve(isin_mapper.isin_map, company_name))}
       /\ isin_mapper' = MapperAfterGetIsin(isin_mapper, company_name)
  /\ calls' = calls + 1
  /\ UNCHANGED <<pdf_files, clock, pc, pdf_idx, holdings, metadata, result, results, batch,
                 csv_file, class_db, other_mapper, args, returned>>

MapperNext ==
  \/ NewMapper
  \/ GetIsin

MapperSpec == MapperInit /\ [][MapperNext]_vars

(***************************************************************************)
(* Two pipeline instances of one process: each has its own ISINMapper, and *)
(* both are built from the class attribute BUILTIN_ISIN_DB as it stands    *)
(***************************************************************************)
\* ISINMapper.__init__ reading the class attribute with the value db
ISINMapperOn(db, csv) ==
  IF csv.path # "" /\ csv.exists
  THEN _load_csv([isin_map |-> db, company_names |-> <<>>], csv)
  ELSE [isin_map |-> db, company_names |-> <<>>]

\* __init__ without the copy: self.isin_map is the class attribute itself,
\* which _load_csv then writes to; C21_CatalogReadOnlyAndPrivate fails under it
BuiltInAfterInit_NoCopy(db, csv) == ISINMapperOn(db, csv).isin_map

\* the class attribute after __init__: "self.isin_map =
\* self.BUILTIN_ISIN_DB.copy()" gives the instance a dict of its own
BuiltInAfterInit(db, csv) == db

InstancesInit == MapperInit

\* FactsheetExtractor(csv_path) of the instance in hand
NewInstance ==
  /\ pc = "new"
  /\ isin_mapper' = ISINMapperOn(class_db, csv_file)
  /\ class_db' = BuiltInAfterInit(class_db, csv_file)
  /\ pc' = "ready"
  /\ UNCHANGED <<pdf_files, clock, pdf_idx, holdings, metadata, result, results, batch,
                 csv_file, calls, lookups, other_mapper, args, returned>>

\* FactsheetExtractor() of another instance, where no external file is found
NewOtherInstance ==
  /\ other_mapper = NoMapper
  /\ other_mapper' = ISINMapperOn(class_db, NO_CSV)
  /\ class_db' = BuiltInAfterInit(class_db, NO_CSV)
  /\ UNCHANGED <<pdf_files, clock, pc, pdf_idx, holdings, metadata, result, results, batch,
                 csv_file, isin_mapper, calls, lookups, args, returned>>

InstancesNext ==
  \/ NewInstance
  \/ NewOtherInstance
  \/ GetIsin

InstancesSpec == InstancesInit /\ [][InstancesNext]_vars

(***************************************************************************)
(* One method called on its own: args holds the arguments, returned the    *)
(* value the call gave                                                     *)
(***************************************************************************)
\* an extractor without external file, before the call
CallInit(inputs) ==
  /\ PipelineIdle
  /\ pdf_files = <<>>
  /\ clock = "2026-11"
  /\ pc = "call"
  /\ csv_file = NO_CSV
  /\ isin_mapper = ISINMapper(NO_CSV)
  /\ calls = 0
  /\ lookups = {}
  /\ class_db = BUILTIN_ISIN_DB
  /\ other_mapper = NoMapper
  /\ args \in inputs
  /\ returned = <<>>

\* the call has returned value from the method named
Return1(method, value) ==
  /\ pc' = method
  /\ returned' = <<value>>
  /\ UNCHANGED <<pdf_files, clock, pdf_idx, holdings, metadata, result, results, batch,
                 csv_file, isin_mapper, calls, lookups, class_db, other_mapper, args>>

\* cell texts: a number or a word, bare, in parentheses, with a sign, a
\* glyph, a percent sign or blanks around it
CellBodies == {"", "1.23", "1.2", "9,001.07", "0", "12", "na", "NA", "Na", "nan",
               "inf", "abc", "-", "1.2.3"}
CellOpenings == {"", "(", "-", " ", RUPEE, BACKTICK \o RUPEE}
CellEndings == {"", ")", "%", ")%", " %"}
Cells == {opening \o body \o ending :
            opening \in CellOpenings, body \in CellBodies, ending \in CellEndings}

FieldInit == CallInit({<<cell>> : cell \in Cells})

\* self.parse_percentage(value)
ParsePercentage == pc = "call" /\ Return1("parse_percentage", parse_percentage(args[1]))

\* self.parse_number(value)
ParseNumber == pc = "call" /\ Return1("parse_number", parse_number(args[1]))

FieldNext ==
  \/ ParsePercentage
  \/ ParseNumber

FieldSpec == FieldInit /\ [][FieldNext]_vars

\* name cells of a dual-block table: securities, structural labels, names
\* too short, too long or without a letter
TEN == "Abcdefghi "
HUNDRED == TEN \o TEN \o TEN \o TEN \o TEN \o TEN \o TEN \o TEN \o TEN \o "Abcdefghij"
PairNames == {"Reliance Industries", "TCS", "  ITC  ", "Adani Total Gas", "Bajaj Holdings",
              "Stock Holding Corp", "Total", "total", "Grand Total", "Equity", "Cash",
              "Debt", "SCRIP", "Security", "Weight", "Holdings", "Portfolio",
              "Net Receivables", "Payables", "AB", "12.5", "A1", "A12", "", " ",
              HUNDRED, HUNDRED \o "k"}
PairWeights == {"8.5%", "10.0", "0", "", "(1.2)%", "abc", "nan", "0.01"}

PairInit == CallInit(PairNames \X PairWeights)

\* one (name, weight) pair in the row loop of _parse_two_column_table
ParsePair == pc = "call" /\ Return1("pair", PairHolding(args[1], args[2]))

PairNext == ParsePair

PairSpec == PairInit /\ [][PairNext]_vars

\* rows of a single-block table with the header H_ROW: a security, an
\* identifier cell, a sector cell and a weight
H_ROW == <<"Security Name", "ISIN", "Sector", "% to NAV">>
RowNames == {"TCS", "Infosys Ltd", "Apple Inc", "Total"}
RowIsinCells == {"", "INE467B01029", " INE467B01029 ", "US0378331005", "ine467b01029",
                 "INE467B0102", "INE467B010290", "IN 467B01029"}
RowSectorCells == {"", "IT", "Banks", "Green Energy", "unknown", " "}
Rows == {<<name, isin_cell, sector_cell, "5.0">> :
           name \in RowNames, isin_cell \in RowIsinCells, sector_cell \in RowSectorCells}

\* the extractor found no external file, or one whose second row has a code
\* shorter than the fixed format
ROW_CSV ==
  CsvFile("data/isin_master.csv", TRUE, TRUE, <<"Security Name", "ISIN">>,
          << <<"Infosys Limited", "INE009A01021">>, <<"Apple Inc", "INE12">> >>)

RowCsvFiles == {NO_CSV, ROW_CSV}

\* self.isin_mapper = ISINMapper(isin_csv_path) has run
RowInit ==
  /\ PipelineIdle
  /\ pdf_files = <<>>
  /\ clock = "2026-11"
  /\ pc = "call"
  /\ csv_file \in RowCsvFiles
  /\ isin_mapper = ISINMapper(csv_file)
  /\ calls = 0
  /\ lookups = {}
  /\ class_db = BUILTIN_ISIN_DB
  /\ other_mapper = NoMapper
  /\ args \in {<<row, _map_columns(H_ROW), "Unknown">> : row \in Rows}
  /\ returned = <<>>

\* the identifier step of the enrichment loop with the extractor's mapper
EnrichedIsinBy(mapper, holding) ==
  IF holding.isin = "" THEN get_isin(mapper.isin_map, holding.security) ELSE holding.isin

\* self._parse_holding_row(row, col_map, current_sector) in _process_tables
ParseRow == pc = "call" /\ Return1("row", _parse_holding_row(args[1], args[2], args[3]))

\* the sector and identifier steps of the enrichment loop of process_pdf on
\* the holding the row gave
EnrichRow ==
  /\ pc = "row" /\ returned[1] # None
  /\ Return1("enriched", [returned[1][1] EXCEPT !.sector = EnrichedSector(returned[1][1]),
                                                !.isin = EnrichedIsinBy(isin_mapper,
                                                                        returned[1][1])])

RowNext ==
  \/ ParseRow
  \/ EnrichRow

RowSpec == RowInit /\ [][RowNext]_vars

\* the built-in table alone and the external files that add entries to it
KeyCsvFiles == {csv \in CsvFiles : csv.path = "" \/ ISINMapper(csv).company_names # <<>>}

\* a constructed mapper and one of the keys of its catalog
KeyInit ==
  /\ PipelineIdle
  /\ pdf_files = <<>>
  /\ clock = "2026-11"
  /\ pc = "call"
  /\ csv_file \in KeyCsvFiles
  /\ isin_mapper = ISINMapper(csv_file)
  /\ calls = 0
  /\ lookups = {}
  /\ class_db = BUILTIN_ISIN_DB
  /\ other_mapper = NoMapper
  /\ args \in {<<isin_mapper.isin_map[k][1]>> : k \in 1..Len(isin_mapper.isin_map)}
  /\ returned = <<>>

\* isin_mapper.get_isin(key)
GetIsinOfKey == pc = "call" /\ Return1("get_isin", get_isin(isin_mapper.isin_map, args[1]))

KeyNext == GetIsinOfKey

KeySpec == KeyInit /\ [][KeyNext]_vars

(***************************************************************************)
(* The filename-derived metadata on its own                                *)
(***************************************************************************)
FilenameInit ==
  /\ PipelineIdle
  /\ pdf_files \in {<<Document(f, FALSE, "", <<>>)>> : f \in Filenames}
  /\ clock \in Months
  /\ pc = "filename"
  /\ csv_file = NO_CSV
  /\ isin_mapper = ISINMapper(NO_CSV)
  /\ calls = 0
  /\ lookups = {}
  /\ Untouched

\* "date = self.extract_date_from_filename(filename)" and
\* "amc = self.extract_amc_from_filename(filename)" of process_pdf
FromFilename ==
  /\ pc = "filename"
  /\ metadata' = [NoMetadata EXCEPT
                    !.date = extract_date_from_filename(pdf_path.filename, clock),
                    !.amc = extract_amc_from_filename(pdf_path.filename)]
  /\ pc' = "named"
  /\ UNCHANGED <<pdf_files, clock, pdf_idx, holdings, result, results, batch, catalog>>

\* "metadata['date'] = date" and "metadata['amc'] = amc if amc != "Unknown"
\* else metadata.get('amc', 'Unknown')" of process_pdf, on the metadata that
\* extract_portfolio_table returned for the document
UpdateMetadata ==
  /\ pc = "named"
  /\ metadata' = [extract_portfolio_table(pdf_path).metadata EXCEPT
                    !.date = metadata.date,
                    !.amc = MetadataAmc(metadata.amc,
                                        extract_portfolio_table(pdf_path).metadata)]
  /\ pc' = "updated"
  /\ UNCHANGED <<pdf_files, clock, pdf_idx, holdings, result, results, batch, catalog>>

FilenameNext ==
  \/ FromFilename
  \/ UpdateMetadata

FilenameSpec == FilenameInit /\ [][FilenameNext]_vars

(***************************************************************************)
(* Properties                                                              *)
(***************************************************************************)
\* the document cannot be opened or parsed
Malformed(d) == ~d.openable

\* process_multiple_pdfs has returned
Returned == pc = "done"

\* the holdings of the results rs that succeeded, in order
SuccessfulHoldings(rs) ==
  Flatten([i \in 1..Len(rs) |-> IF rs[i].success THEN rs[i].holdings ELSE <<>>])

\* C1: when exactly one document k of a batch is malformed, the batch returns
\* the holdings of the other documents, no holding for k, and an errors list
\* with exactly one entry, which names document k.
C1_OneMalformedDocumentOneError ==
  Returned =>
    \A k \in 1..Len(pdf_files) :
      (/\ Malformed(pdf_files[k])
       /\ \A i \in 1..Len(pdf_files) \ {k} :
            ~Malformed(pdf_files[i]) /\ pdf_files[i].raises = "")
      => /\ all_holdings =
              Flatten([i \in 1..Len(results) |->
                         IF i = k THEN <<>> ELSE results[i].holdings])
         /\ results[k].holdings = <<>>
         /\ Len(errors) = 1
         /\ Contains(pdf_files[k].filename, errors[1])

\* C2: the batch gives every document a result and returns; the combined
\* holdings are the concatenation, in input order, of the holdings of the
\* documents processed successfully, and each document's result is what that
\* document gives by itself, whatever the other documents of the batch did.
C2_BatchConcatenates ==
  /\ all_holdings = SuccessfulHoldings(results)
  /\ pc \in {"loop", "done"} =>
       /\ Len(results) = pdf_idx
       /\ \A i \in 1..Len(results) : results[i] = process_pdf(pdf_files[i], clock)
  /\ Returned => Len(results) = Len(pdf_files)

\* a batch has returned in which one document failed after another gave holdings
C2_FailureKeepsOtherHoldings ==
  /\ Returned
  /\ Len(results) = 2
  /\ results[1].success /\ results[1].holdings # <<>>
  /\ ~results[2].success
  /\ all_holdings = results[1].holdings

\* C3: every exception raised while a document is processed is recorded, and
\* every entry of an errors list, of a document's result and of the batch,
\* contains the filename of the document that caused it.
C3_ErrorsTaggedWithFilename ==
  /\ \A i \in 1..Len(results) :
       /\ (Malformed(pdf_files[i]) \/ pdf_files[i].raises # "") => results[i].errors # <<>>
       /\ \A j \in 1..Len(results[i].errors) :
            Contains(results[i].filename, results[i].errors[j])
  /\ \A j \in 1..Len(errors) :
       \E i \in 1..Len(results) :
         ~results[i].success /\ Contains(results[i].filename, errors[j])

\* the table of a document with one candidate table
OnlyTable(d) == all_tables(d)[1]

\* the document has one candidate table, whose first row is its header
HasOneTable(d) ==
  d.openable /\ Len(all_tables(d)) = 1 /\ IsHeaderRow(OnlyTable(d)[1])

SingleBlock(d) == HasOneTable(d) /\ ~is_two_column_format(OnlyTable(d)[1])

DualBlock(d) == HasOneTable(d) /\ is_two_column_format(OnlyTable(d)[1])

\* the security cell is non-blank and is not a non-data label
IsDataCell(cell) == strip(cell) # "" /\ ~InList(lower(strip(cell)), non_data_labels)

\* C4: a single-block table whose header has a cell matching a security-role
\* keyword, at any column, the first included, is parsed: every data row whose
\* security cell is non-blank and no non-data label yields one holding.
C4_SecurityRoleAtAnyColumn ==
  (/\ pc = "fallback"
   /\ SingleBlock(pdf_path)
   /\ MatchingCols(OnlyTable(pdf_path)[1], "security") # {})
  => LET table == OnlyTable(pdf_path)
         col == Min(MatchingCols(table[1], "security"))
         data == SelectSeq(SubSeq(table, 2, Len(table)),
                           LAMBDA row : IsDataCell(CellAt(row, Some(col))))
     IN /\ Len(holdings) = Len(data)
        /\ \A i \in 1..Len(data) :
             holdings[i].security = CollapseWs(strip(CellAt(data[i], Some(col))))

IsTotalCell(cell) == lower(strip(cell)) = "total"

\* a two-column row with the name cells that read "Total" blanked
BlankTotals(row) ==
  [j \in 1..Len(row) |-> IF j \in {1, 3} /\ IsTotalCell(row[j]) THEN "" ELSE row[j]]

\* the table without what its "Total" rows hold: in a two-column table the
\* name cells, in a single-block table the rows whose security cell it is
WithoutTotalRows(table) ==
  IF HeaderCandidates(table) = {} THEN table
  ELSE LET h == Min(HeaderCandidates(table))
           header == table[h + 1]
           rows == SubSeq(table, h + 2, Len(table))
           col_map == _map_columns(header)
           col == IF Truthy(Get(col_map, "security")) THEN col_map["security"] ELSE 0
       IN SubSeq(table, 1, h + 1)
          \o (IF is_two_column_format(header)
              THEN [i \in 1..Len(rows) |-> BlankTotals(rows[i])]
              ELSE SelectSeq(rows, LAMBDA row : ~IsTotalCell(CellAt(row, Some(col)))))

RECURSIVE Lines(_)
Lines(text) ==
  LET newlines == {i \in 1..Len(text) : Ch(text, i) = "\n"}
  IN IF newlines = {} THEN <<text>>
     ELSE <<SubSeq(text, 1, Min(newlines) - 1)>>
          \o Lines(SubSeq(text, Min(newlines) + 1, Len(text)))

RECURSIVE Unlines(_)
Unlines(lines) ==
  IF lines = <<>> THEN ""
  ELSE IF Len(lines) = 1 THEN lines[1]
  ELSE lines[1] \o "\n" \o Unlines(Tail(lines))

\* the line is a row of text with the security cell "Total" and a number
IsTotalLine(line) ==
  \E i \in 1..Len(line) :
    /\ Ch(line, i) = " "
    /\ IsTotalCell(SubSeq(line, 1, i - 1))
    /\ LET number == strip(SubSeq(line, i + 1, Len(line)))
       IN number # "" /\ \A j \in 1..Len(number) : CharIn(Ch(number, j), DIGITS \o ".")

WithoutTotalLines(text) == Unlines(SelectSeq(Lines(text), LAMBDA line : ~IsTotalLine(line)))

\* C5: a row whose security cell is "Total", in any letter case, produces no
\* holding in any layout: the holdings of the tables, single-block and
\* dual-block, and the holdings of the text fallback are those of the document
\* without its "Total" rows.
C5_TotalRowsYieldNoHolding ==
  /\ pc = "fallback" =>
       holdings = ScanTables(MapSeq(LAMBDA i : WithoutTotalRows(all_tables(pdf_path)[i]),
                                    1, Len(all_tables(pdf_path))), "Unknown")
  /\ (pc = "enrich" /\ pdf_path.openable /\ process_tables_of[pdf_path] = <<>>) =>
       holdings = _extract_holdings_from_text(WithoutTotalLines(all_text(pdf_path)))

\* C6: every holding of a result has weight_pct >= 0, whichever path produced
\* it and whatever the weight cell holds.
C6_WeightsNonNegative ==
  /\ \A i \in 1..Len(result.holdings) : result.holdings[i].pct_of_aum >= 0
  /\ \A i \in 1..Len(all_holdings) : all_holdings[i].pct_of_aum >= 0

\* process_pdf has built its records from the holdings and metadata in hand
Enriching == pc = "collect" /\ result.success

\* the total managed assets are known and no value was extracted for holding i
ValueToCompute(i) == metadata.aum_cr # None /\ holdings[i].market_value = None

\* round(weight_pct / 100 * total_managed_assets, 2) of holding i
ComputedValue(i) == Some(RoundDiv(holdings[i].pct_of_aum * metadata.aum_cr[1], 10000))

C8_ExtractedValueKept ==
  Enriching =>
    \A i \in 1..Len(holdings) :
      /\ holdings[i].market_value # None
           => result.holdings[i].market_value = holdings[i].market_value
      /\ (holdings[i].market_value = None /\ metadata.aum_cr = None)
           => result.holdings[i].market_value = None

\* the (name, weight) pairs of a row at columns [0,1] and [2,3]
PairsOf(row) ==
  IF Len(row) >= 4 THEN <<<<row[1], row[2]>>, <<row[3], row[4]>>>>
  ELSE IF Len(row) >= 2 THEN <<<<row[1], row[2]>>>>
  ELSE <<>>

\* the pair passes the validity filter and its parsed weight is above 0
PairPasses(pair) == _is_valid_security(strip(pair[1])) /\ parse_percentage(pair[2]) > 0

\* the pairs of the rows that pass, row by row, left before right
PassingPairs(rows) ==
  Flatten([i \in 1..Len(rows) |-> SelectSeq(PairsOf(rows[i]), PairPasses)])

\* C9: in a table recognized as dual-block every data row yields one holding
\* for each of its pairs at columns [0,1] and [2,3] that passes the validity
\* filter with parsed weight > 0, left before right; the row
\* ["Reliance Industries", "8.5%", "TCS", "6.2%"] yields two holdings, of
\* weight 8.5 and 6.2.
C9_DualBlockPairs ==
  (pc = "fallback" /\ DualBlock(pdf_path)) =>
    LET table == OnlyTable(pdf_path)
        pairs == PassingPairs(SubSeq(table, 2, Len(table)))
    IN /\ Len(holdings) = Len(pairs)
       /\ \A i \in 1..Len(pairs) :
            /\ holdings[i].security = strip(pairs[i][1])
            /\ holdings[i].pct_of_aum = parse_percentage(pairs[i][2])
       /\ table = <<H_DUAL, <<"Reliance Industries", "8.5%", "TCS", "6.2%">>>>
            => /\ Len(holdings) = 2
               /\ holdings[1].pct_of_aum = 850
               /\ holdings[2].pct_of_aum = 620

\* the dual-block table of the one example row has been parsed
C9_ExampleRowParsed ==
  /\ pc = "fallback"
  /\ DualBlock(pdf_path)
  /\ OnlyTable(pdf_path) = <<H_DUAL, <<"Reliance Industries", "8.5%", "TCS", "6.2%">>>>
  /\ Len(holdings) = 2

\* C10: the text fallback runs for a document exactly when its candidate
\* tables yielded no holding: the holdings then become those of the text, and
\* otherwise stay the table holdings, never a mix of the two.
C10_FallbackOnlyWhenNoTableHolding ==
  [][pc = "fallback" =>
       /\ holdings = <<>> => holdings' = text_holdings_of[all_text(pdf_path)]
       /\ holdings # <<>> => holdings' = holdings]_vars

\* the tables of a document yielded no holding and its text yielded some
C10_TextHoldingsAfterEmptyTables ==
  /\ pc = "enrich"
  /\ pdf_path.openable
  /\ process_tables_of[pdf_path] = <<>>
  /\ holdings # <<>>
  /\ holdings = text_holdings_of[all_text(pdf_path)]

(***************************************************************************)
(* Properties of the identifier resolver                                   *)
(***************************************************************************)
\* the catalog of the mapper in hand
isin_map_now == isin_mapper.isin_map

\* _normalize_name of the names resolved in the model
normalized_of == Tabulated([n \in Names |-> _normalize_name(n)])

\* the positions of the catalog entries stored under key
EntriesUnder(key) == {k \in 1..Len(isin_map_now) : isin_map_now[k][1] = key}

\* C11: whenever the normalized input name is a key of the catalog, get_isin
\* returns the code stored under that key, whatever score the other entries
\* of the catalog obtain.
C11_ExactMatchWins ==
  \A call \in lookups :
    \A k \in EntriesUnder(normalized_of[call.company_name]) :
      call.isin = isin_map_now[k][2]

\* "SBI Life Insurance" is resolved to the code under its own key although
\* the earlier entry "sbi", which it contains, has another code
C11_ExactBeatsContainedKey ==
  \E call \in lookups :
    /\ call.company_name = "SBI Life Insurance"
    /\ EntriesUnder("sbi life insurance") # {}
    /\ \E k \in EntriesUnder("sbi") :
         /\ k < Min(EntriesUnder("sbi life insurance"))
         /\ ~FracLess(Score("sbi life insurance", "sbi"), <<85, 100>>)
         /\ isin_map_now[k][2] # call.isin
    /\ call.isin = "INE123W01016"

\* the similarity ratio, raised to 0.85 when one string contains the other
RaisedRatio(a, b) ==
  IF (Contains(a, b) \/ Contains(b, a)) /\ FracLess(_similarity(a, b), <<85, 100>>)
  THEN <<85, 100>>
  ELSE _similarity(a, b)

\* for a name without exact match: the greatest RaisedRatio over the catalog
\* and the positions of the entries that have it
BestEntries(entries, key) ==
  LET ratios == [k \in 1..Len(entries) |-> RaisedRatio(key, entries[k][1])]
      top == FracMaxOf(ratios, 1, Len(ratios))
  IN [score |-> top, at |-> {k \in 1..Len(entries) : ~FracLess(ratios[k], top)}]

NoEntries == [score |-> <<0, 1>>, at |-> {}]

best_of ==
  Tabulated([entries \in Catalogs |->
    Tabulated([n \in Names |->
      IF Lookup(entries, normalized_of[n]) # None THEN NoEntries
      ELSE BestEntries(entries, normalized_of[n])])])

Threshold == <<80, 100>>

\* C12: for a name with no exact catalog match, get_isin returns the code of a
\* maximum-scoring catalog entry only if that score (the similarity ratio,
\* raised to 0.85 when either normalized string contains the other) is at
\* least 0.80, and returns "-" when the score is below 0.80; a non-empty name
\* whose maximum score is at least 0.80 gets that entry's code.
C12_FuzzyMatchThreshold ==
  \A call \in lookups :
    EntriesUnder(normalized_of[call.company_name]) = {} =>
      LET best == best_of[isin_map_now][call.company_name]
          codes == {isin_map_now[k][2] : k \in best.at}
      IN /\ call.isin # "-" => ~FracLess(best.score, Threshold) /\ call.isin \in codes
         /\ FracLess(best.score, Threshold) => call.isin = "-"
         /\ call.company_name # "" /\ ~FracLess(best.score, Threshold) => call.isin \in codes

\* no built-in key has a similarity ratio of 0.80 or more to "sbi life"
SbiLifeRatiosBelowThreshold ==
  \A k \in 1..Len(BUILTIN_ISIN_DB) :
    FracLess(_similarity("sbi life", BUILTIN_ISIN_DB[k][1]), Threshold)

\* "SBI Life" is accepted at the raised score 0.85, "Wiipro" at a ratio above
\* 0.80 without containment, and "IRCTC" is refused below 0.80
C12_AcceptedAndRefused ==
  /\ calls = 3
  /\ isin_map_now = BUILTIN_ISIN_DB
  /\ \E call \in lookups : call.company_name = "SBI Life" /\ call.isin # "-"
  /\ \E call \in lookups : call.company_name = "Wiipro" /\ call.isin = "INE075A01022"
  /\ \E call \in lookups : call.company_name = "IRCTC" /\ call.isin = "-"
  /\ best_of[isin_map_now]["SBI Life"].score = <<85, 100>>
  /\ SbiLifeRatiosBelowThreshold
  /\ ~Contains("wiipro", "wipro") /\ ~Contains("wipro", "wiipro")
  /\ FracLess(best_of[isin_map_now]["IRCTC"].score, Threshold)

\* C13: get_isin("HDFC Bank Ltd") returns the code stored under the key
\* "hdfc bank" (the built-in code when no external row overrides it), and so
\* does every variant of the name in another letter case or with another
\* trailing suffix token.
C13_HdfcBankVariants ==
  \A call \in lookups :
    call.company_name \in HdfcBankVariants =>
      /\ \E k \in EntriesUnder("hdfc bank") : call.isin = isin_map_now[k][2]
      /\ isin_map_now = BUILTIN_ISIN_DB => call.isin = "INE040A01034"

\* three of the variants resolved against the built-in catalog
C13_ThreeVariantsResolved ==
  /\ isin_map_now = BUILTIN_ISIN_DB
  /\ {call.company_name : call \in lookups} = {"HDFC Bank Ltd", "hdfc bank INDIA", "HDFC Bank & Co"}
  /\ \A call \in lookups : call.isin = "INE040A01034"

C15_FirstMaximumWins ==
  /\ \A call \in lookups :
       /\ EntriesUnder(normalized_of[call.company_name]) = {}
       /\ call.isin # "-"
       => call.isin = isin_map_now[Min(best_of[isin_map_now][call.company_name].at)][2]
  /\ pc = "ready" =>
       /\ Len(isin_map_now) >= Len(BUILTIN_ISIN_DB)
       /\ \A k \in 1..Len(BUILTIN_ISIN_DB) : isin_map_now[k][1] = BUILTIN_ISIN_DB[k][1]

\* "SBI Life" scores 0.85 with the built-in keys "sbi" and "sbi life
\* insurance" and with a key added from the external table; the code returned
\* is the code of "sbi", the earliest of them, which the later ones do not have
C15_TieAcrossBuiltInAndExternal ==
  /\ Len(isin_map_now) > Len(BUILTIN_ISIN_DB)
  /\ \E call \in lookups :
       LET best == best_of[isin_map_now][call.company_name]
       IN /\ call.company_name = "SBI Life"
          /\ Cardinality(best.at) >= 3
          /\ \E k \in best.at : k > Len(BUILTIN_ISIN_DB)
          /\ \E k \in best.at : isin_map_now[k][2] # call.isin
          /\ isin_map_now[Min(best.at)][1] = "sbi"
          /\ call.isin = "INE062A01020"

(***************************************************************************)
(* Properties of the catalog construction                                  *)
(***************************************************************************)
\* the rows of an external table that __init__ reads and finds both columns
\* in, as <<normalized key, code>> pairs in file order
ExternalEntries(csv) ==
  IF csv.path # "" /\ csv.exists /\ csv.readable
     /\ NameColumn(csv.columns) # 0 /\ IsinColumn(csv.columns) # 0
  THEN [k \in 1..Len(csv.rows) |->
          <<_normalize_name(strip(csv.rows[k][NameColumn(csv.columns)])),
            strip(csv.rows[k][IsinColumn(csv.columns)])>>]
  ELSE <<>>

external_of == Tabulated([csv \in CsvFiles |-> ExternalEntries(csv)])

\* the name cells of the rows, stripped
external_names_of ==
  Tabulated([csv \in CsvFiles |->
    [k \in 1..Len(external_of[csv]) |-> strip(csv.rows[k][NameColumn(csv.columns)])]])

\* the code of the last of the entries with this key, None without one
LastCode(entries, key) ==
  LET at == {k \in 1..Len(entries) : entries[k][1] = key}
  IN IF at = {} THEN None ELSE <<entries[Max(at)][2]>>

\* the rows that carry a name and a code beginning with "INE"
EquityEntries(csv) ==
  LET all == external_of[csv]
      kept == {k \in 1..Len(all) :
                 external_names_of[csv][k] # "" /\ startswith(all[k][2], "INE")}
      RECURSIVE Pick(_)
      Pick(k) == IF k > Len(all) THEN <<>>
                 ELSE IF k \in kept THEN <<all[k]>> \o Pick(k + 1) ELSE Pick(k + 1)
  IN Pick(1)

equity_of == Tabulated([csv \in CsvFiles |-> EquityEntries(csv)])

\* the catalog holds, for the external entries given, the last code of every
\* external key, and the built-in code of every other built-in key
MergedFrom(entries) ==
  /\ \A k \in 1..Len(entries) :
       Lookup(isin_map_now, entries[k][1]) = LastCode(entries, entries[k][1])
  /\ \A k \in 1..Len(BUILTIN_ISIN_DB) :
       LastCode(entries, BUILTIN_ISIN_DB[k][1]) = None =>
         Lookup(isin_map_now, BUILTIN_ISIN_DB[k][1]) = <<BUILTIN_ISIN_DB[k][2]>>

\* C16 as stated: after construction every key of the external table, in the
\* built-in table or not, maps to the code of its last external row, and every
\* key only in the built-in table keeps its built-in code.
C16_EveryExternalRowOverrides ==
  pc = "ready" /\ calls = 0 => MergedFrom(external_of[csv_file])

\* C16, amended: the statement holds for the external rows that carry a name
\* and a code beginning with "INE"; the other rows are skipped, and the
\* catalog has no key besides the built-in ones and those of the rows kept.
C16_EquityRowsOverrideBuiltIn ==
  pc = "ready" /\ calls = 0 =>
    /\ MergedFrom(equity_of[csv_file])
    /\ \A k \in 1..Len(isin_map_now) :
         \/ Lookup(BUILTIN_ISIN_DB, isin_map_now[k][1]) # None
         \/ LastCode(equity_of[csv_file], isin_map_now[k][1]) # None

\* a table with two rows for "hdfc bank", a new key "irctc", and a row for
\* "axis bank" whose code does not begin with "INE"
C16_OverriddenAddedAndKept ==
  /\ pc = "ready"
  /\ Len(equity_of[csv_file]) < Len(external_of[csv_file])
  /\ Lookup(BUILTIN_ISIN_DB, "hdfc bank") = <<"INE040A01034">>
  /\ Lookup(isin_map_now, "hdfc bank") = <<"INE040A01100">>
  /\ Lookup(BUILTIN_ISIN_DB, "irctc") = None
  /\ Lookup(isin_map_now, "irctc") = <<"INE335Y01020">>
  /\ LastCode(external_of[csv_file], "axis bank") = <<"INF846K01131">>
  /\ Lookup(isin_map_now, "axis bank") = <<"INE238A01034">>
  /\ Lookup(isin_map_now, "icici bank") = Lookup(BUILTIN_ISIN_DB, "icici bank")

\* an external file that is absent, or that read_csv cannot parse, or in
\* which the name column or the code column is not found
Unusable(csv) ==
  \/ csv.path # "" /\ ~csv.exists
  \/ csv.path # "" /\ csv.exists /\ ~csv.readable
  \/ csv.path # "" /\ csv.exists /\ csv.readable
       /\ (NameColumn(csv.columns) = 0 \/ IsinColumn(csv.columns) = 0)

\* C17: with a missing or malformed external file the construction of the
\* mapper completes, and its catalog is the built-in table exactly, with no
\* entry and no company name taken from the file.
C17_UnusableFileLeavesBuiltIn ==
  /\ pc = "ready" => isin_mapper # NoMapper
  /\ pc = "ready" /\ Unusable(csv_file) =>
       /\ isin_map_now = BUILTIN_ISIN_DB
       /\ isin_mapper.company_names = <<>>

\* the mapper built from a file that exists and that read_csv fails on
C17_BuiltFromUnreadableFile ==
  /\ pc = "ready"
  /\ csv_file.exists /\ ~csv_file.readable
  /\ isin_map_now = BUILTIN_ISIN_DB

\* the mapper built from a path where no file is
C17_BuiltFromMissingFile ==
  /\ pc = "ready"
  /\ csv_file.path # "" /\ ~csv_file.exists
  /\ isin_map_now = BUILTIN_ISIN_DB

(***************************************************************************)
(* Properties of the filename-derived metadata                             *)
(***************************************************************************)
\* the filename whose date and issuer were taken
named_file == pdf_files[1].filename

\* the six digits that immediately precede the extension ".pdf" (in either
\* letter case), as a one-element tuple; None without them
TrailingYYYYMM(filename) ==
  LET n == Len(filename)
  IN IF n >= 10 /\ SubSeq(filename, n - 3, n) \in {".pdf", ".PDF"}
        /\ \A i \in (n - 9)..(n - 4) : CharIn(Ch(filename, i), "0123456789")
     THEN <<SubSeq(filename, n - 9, n - 4)>>
     ELSE None

\* the leftmost YYYY<sep>MM in the filename as <<YYYY, MM>>, where <sep> is
\* one of the strings in separators; None without one
LeftmostYearMonth(filename, separators) ==
  LET IsDigit(i) == CharIn(Ch(filename, i), "0123456789")
      at == {pos \in (1..Len(filename)) \X separators :
               /\ pos[1] + 5 + Len(pos[2]) <= Len(filename)
               /\ \A i \in pos[1]..(pos[1] + 3) : IsDigit(i)
               /\ SubSeq(filename, pos[1] + 4, pos[1] + 3 + Len(pos[2])) = pos[2]
               /\ IsDigit(pos[1] + 4 + Len(pos[2])) /\ IsDigit(pos[1] + 5 + Len(pos[2]))}
      first == Min({pos[1] : pos \in at})
      sep == CHOOSE w \in separators :
               /\ <<first, w>> \in at
               /\ \A v \in separators : <<first, v>> \in at => Len(v) >= Len(w)
  IN IF at = {} THEN None
     ELSE <<SubSeq(filename, first, first + 3),
            SubSeq(filename, first + 4 + Len(sep), first + 5 + Len(sep))>>

\* the precedence of the three sources of the report date
DateByPrecedence(filename, now, separators) ==
  IF TrailingYYYYMM(filename) # None
  THEN SubSeq(TrailingYYYYMM(filename)[1], 1, 4) \o "-"
         \o SubSeq(TrailingYYYYMM(filename)[1], 5, 6) \o "-01"
  ELSE IF LeftmostYearMonth(filename, separators) # None
  THEN LeftmostYearMonth(filename, separators)[1] \o "-"
         \o LeftmostYearMonth(filename, separators)[2] \o "-01"
  ELSE now \o "-01"

\* C18 as stated: the six digits before the extension come first, then a
\* YYYY-MM or YYYY_MM token anywhere in the filename, then the current month;
\* "HDFC_BlueChip_202412.pdf" gives "2024-12-01" and the issuer "HDFC".
C18_SeparatedTokenPrecedence ==
  pc = "named" =>
    /\ metadata.date = DateByPrecedence(named_file, clock, {"-", "_"})
    /\ named_file = "HDFC_BlueChip_202412.pdf" =>
         metadata.date = "2024-12-01" /\ metadata.amc = "HDFC"

\* C18, amended: the six digits before the extension come first, even when a
\* year-month token occurs earlier in the filename; then the leftmost run of
\* four digits, an optional "-" or "_", and two digits anywhere in the
\* filename; then the current month.  "HDFC_BlueChip_202412.pdf" gives
\* "2024-12-01" and the issuer "HDFC".
C18_ReportDatePrecedence ==
  pc = "named" =>
    /\ metadata.date = DateByPrecedence(named_file, clock, {"", "-", "_"})
    /\ named_file = "HDFC_BlueChip_202412.pdf" =>
         metadata.date = "2024-12-01" /\ metadata.amc = "HDFC"

\* a filename with "2023-05" early and "202412" before the extension is
\* dated by the latter
C18_TrailingTokenBeatsEarlierToken ==
  /\ pc = "named"
  /\ named_file = "UTI_2023-05_202412.pdf"
  /\ LeftmostYearMonth(named_file, {"-", "_"}) = <<"2023", "05">>
  /\ metadata.date = "2024-12-01"

\* YYYY-MM-01 with MM from 01 to 12
FirstDayOfMonth(date) ==
  /\ Len(date) = 10
  /\ \A i \in {1, 2, 3, 4, 6, 7} : CharIn(Ch(date, i), "0123456789")
  /\ Ch(date, 5) = "-" /\ SubSeq(date, 8, 10) = "-01"
  /\ SubSeq(date, 6, 7) \in {"01", "02", "03", "04", "05", "06",
                              "07", "08", "09", "10", "11", "12"}

\* C19: the report date that process_pdf takes from the filename, and puts in
\* the document metadata and in every holding, is the first day of a calendar
\* month: YYYY-MM-01 with MM between 01 and 12, for every filename.
C19_FirstDayOfCalendarMonth ==
  pc = "named" => FirstDayOfMonth(metadata.date)

(***************************************************************************)
(* Isolation of the documents of a batch                                   *)
(***************************************************************************)
\* C20: the result of a document (holdings with their sectors, metadata,
\* sector allocation, errors) is what process_pdf gives for that document by
\* itself, at whatever place of the batch it is processed and whatever the
\* documents before it were; the mapper the documents share is not changed.
C20_NoLeakAcrossDocuments ==
  /\ pc = "collect" => result = process_pdf(pdf_path, clock)
  /\ \A i \in 1..Len(results) :
       /\ results[i] = process_pdf(pdf_files[i], clock)
       /\ \A j \in 1..Len(results) : pdf_files[i] = pdf_files[j] => results[i] = results[j]
  /\ isin_mapper = ISINMapper(NO_CSV)

\* a document whose text gives no total managed assets was processed after a
\* document whose text gives one: it has its own fund name, no total, and
\* holdings without a value
C20_SecondDocumentUntouched ==
  /\ Returned
  /\ Len(results) = 2
  /\ results[1].success /\ results[2].success
  /\ results[1].metadata.aum_cr # None /\ results[2].metadata.aum_cr = None
  /\ results[1].metadata.fund_name # results[2].metadata.fund_name
  /\ results[1].holdings # <<>> /\ results[2].holdings # <<>>
  /\ \A k \in 1..Len(results[2].holdings) : results[2].holdings[k].market_value = None
  /\ \E k \in 1..Len(results[1].holdings) : results[1].holdings[k].market_value # None

(***************************************************************************)
(* Properties of the catalog across instances                              *)
(***************************************************************************)
mapper_of == Tabulated([csv \in CsvFiles |-> ISINMapper(csv)])

\* C21: the catalog of an instance stays what its construction made of the
\* built-in table and of its external file, whatever get_isin is called with;
\* the built-in table never changes; and another instance, built before or
\* after an external table was loaded, has the built-in table as catalog.
C21_CatalogReadOnlyAndPrivate ==
  /\ class_db = BUILTIN_ISIN_DB
  /\ pc = "ready" => isin_mapper = mapper_of[csv_file]
  /\ other_mapper # NoMapper =>
       other_mapper = [isin_map |-> BUILTIN_ISIN_DB, company_names |-> <<>>]

\* an instance that loaded external rows has resolved names, and another
\* instance exists
C21_LoadedBesideBuiltInOnly ==
  /\ pc = "ready" /\ calls = MaxLookups
  /\ isin_map_now # BUILTIN_ISIN_DB
  /\ Lookup(isin_map_now, "irctc") # None
  /\ other_mapper # NoMapper
  /\ Lookup(other_mapper.isin_map, "irctc") = None

(***************************************************************************)
(* Properties of the field normalizers                                     *)
(***************************************************************************)
\* the value, in hundredths, of an optional sign and a decimal literal;
\* None for any other text
DecimalValue(text) ==
  LET signed == text # "" /\ Ch(text, 1) \in {"+", "-"}
      body == IF signed THEN SubSeq(text, 2, Len(text)) ELSE text
      digits == UnsignedHundredths(body)
  IN IF digits = None THEN None
     ELSE IF signed /\ Ch(text, 1) = "-" THEN Some(0 - digits[1]) ELSE digits

\* C22: parse_percentage returns a number for every input: the value of the
\* text without "%", "," and surrounding blanks, negated when it stands in
\* parentheses ("(1.23)%" gives -1.23, "(1.2)" gives -1.2), and 0.0 when that
\* text is empty or no number.
C22_ParsePercentageTotal ==
  pc = "parse_percentage" =>
    LET bare == strip(remove(remove(args[1], "%"), ","))
        text == IF Len(bare) >= 2 /\ Ch(bare, 1) = "(" /\ Ch(bare, Len(bare)) = ")"
                THEN "-" \o SubSeq(bare, 2, Len(bare) - 1) ELSE bare
    IN /\ returned[1] \notin {NaN, Infinity, 0 - Infinity}
       /\ returned[1] = (IF DecimalValue(text) = None THEN 0 ELSE DecimalValue(text)[1])
       /\ args[1] = "(1.23)%" => returned[1] = -123
       /\ args[1] = "(1.2)" => returned[1] = -120

\* C23: parse_number returns None for "-", "" and "na" in any letter case and
\* for every text that is no number, and otherwise the number left when ",",
\* the rupee glyph and backticks are removed ("<rupee>9,001.07" gives 9001.07).
C23_ParseNumberOrNone ==
  pc = "parse_number" =>
    LET bare == strip(remove(remove(remove(args[1], ","), RUPEE), BACKTICK))
    IN /\ returned[1] \notin {Some(NaN), Some(Infinity), Some(0 - Infinity)}
       /\ returned[1] = (IF bare \in {"-", ""} \/ lower(bare) = "na" THEN None
                         ELSE DecimalValue(bare))
       /\ args[1] = RUPEE \o "9,001.07" => returned[1] = Some(900107)

(***************************************************************************)
(* Properties of the dual-block pair filter                                *)
(***************************************************************************)
\* the structural labels of the skip-list
SkipLabels == {skip_patterns[k] : k \in 1..Len(skip_patterns)}

\* C24: a (name, weight) pair of a dual-block row is accepted as a holding if
\* and only if the name has 3 to 100 characters, has a letter, is not one of
\* the structural labels of the skip-list, and the parsed weight is above 0;
\* so a security name that is no such label is not rejected by the skip-list.
C24_PairAcceptedIff ==
  pc = "pair" =>
    LET name == strip(args[1])
    IN returned[1] # <<>> <=>
         /\ Len(name) >= 3 /\ Len(name) <= 100
         /\ \E i \in 1..Len(name) : isalpha(Ch(name, i))
         /\ lower(name) \notin SkipLabels
         /\ parse_percentage(args[2]) > 0

(***************************************************************************)
(* Properties of the single-block row and of its enrichment                *)
(***************************************************************************)
\* two capital letters followed by exactly 10 capital letters or digits
CanonicalCode(code) ==
  /\ Len(code) = 12
  /\ \A i \in 1..2 : CharIn(Ch(code, i), UPPER)
  /\ \A i \in 3..12 : CharIn(Ch(code, i), UPPER \o DIGITS)

\* the holding _parse_holding_row gave for the row in args
parsed_row == _parse_holding_row(args[1], args[2], args[3])[1]

C26_KeysNormalizedAndResolved ==
  pc = "get_isin" =>
    /\ _normalize_name(args[1]) = args[1]
    /\ returned = Lookup(isin_mapper.isin_map, args[1])

\* C27: a name whose normal form is empty, such as a name of punctuation
\* only, resolves to "-" and never to a code of the catalog, like the empty
\* name.
C27_EmptyNormalFormUnresolved ==
  \A lookup \in lookups :
    _normalize_name(lookup.company_name) = "" => lookup.isin = "-"

\* two letters followed by exactly 10 letters or digits
WellFormedCode(code) ==
  /\ Len(code) = 12
  /\ \A i \in 1..2 : isalpha(Ch(code, i))
  /\ \A i \in 3..12 : isalpha(Ch(code, i)) \/ isdigit(Ch(code, i))

GuessedSector(security) == _guess_sector(security, sector_keywords)

IssuerLabels == {AMC_MAPPINGS[k][2] : k \in 1..Len(AMC_MAPPINGS)}

\* C30: the issuer of a document's metadata is never the empty string: it is
\* a canonical label, a title-cased token or "Unknown", also when the
\* filename has no token and the text of the document gives no issuer.
C30_IssuerNeverEmpty ==
  pc = "updated" =>
    /\ metadata.amc # ""
    /\ \/ metadata.amc \in IssuerLabels
       \/ metadata.amc = title(metadata.amc)
       \/ metadata.amc = "Unknown"

====
